---- MODULE Spec2Model ----
(***************************************************************************)
(* A model of fbsqlxx (include/fbsqlxx.hpp): the segment stream of class   *)
(* blob, the parameter encoder input_params::make_input and the decoder    *)
(* field::as<T>.                                                           *)
(*                                                                         *)
(* Byte sequences handled by blob are kept symbolically: a byte string is  *)
(* a sequence of chunks <<buf, off, len>>, "len bytes of caller buffer buf *)
(* starting at offset off", in normal form (no empty chunk, neighbouring   *)
(* chunks of one buffer merged).  Buffer 0 is the initial storage of a     *)
(* freshly constructed std::vector.  Two byte strings are equal exactly    *)
(* when their normal forms are equal, so lengths as large as 70000 are     *)
(* handled with the real MAX_SEGMENT_SIZE.                                 *)
(***************************************************************************)
EXTENDS Integers, Sequences, FiniteSets, TLC

\* ------------------------------------------------------------------ bounds
MaxSegs  == 3      \* segments written to the engine in one run

\* ------------------------------------------------------- program constants
MAX_SEGMENT_SIZE == 32768

NULLPTR == 0

Min(a, b) == IF a < b THEN a ELSE b

\* ------------------------------------------------------ symbolic byte data
BLen(s) == IF s = <<>> THEN 0
           ELSE LET F[k \in 0..Len(s)] == IF k = 0 THEN 0 ELSE F[k-1] + s[k][3]
                IN F[Len(s)]

\* concatenation, merging the chunks that meet when they continue each other
Cat(s, t) ==
  IF s = <<>> THEN t
  ELSE IF t = <<>> THEN s
  ELSE LET a == s[Len(s)]
           b == t[1]
       IN IF a[1] = b[1] /\ a[2] + a[3] = b[2]
          THEN SubSeq(s, 1, Len(s) - 1)
               \o << <<a[1], a[2], a[3] + b[3]>> >>
               \o SubSeq(t, 2, Len(t))
          ELSE s \o t

\* the bytes [pos, pos+len) of s
RECURSIVE Slice(_, _, _)
Slice(s, pos, len) ==
  IF len <= 0 \/ s = <<>> THEN <<>>
  ELSE LET c == s[1]
           rest == SubSeq(s, 2, Len(s))
       IN IF pos >= c[3] THEN Slice(rest, pos - c[3], len)
          ELSE LET take == Min(len, c[3] - pos)
                   off == c[2] + pos
               IN Cat(<< <<c[1], off, take>> >>, Slice(rest, 0, len - take))

\* the first len bytes of caller buffer b
Bytes(b, len) == IF len = 0 THEN <<>> ELSE << <<b, 0, len>> >>

\* what a read through a pointer to a buffer of len bytes can see: the buffer,
\* then whatever memory follows it
Beyond == -2
Memory(b, len) == Bytes(b, len) \o << <<Beyond, 0, 4 * 32768>> >>

\* std::vector<unsigned char>(n): n value-initialised (zero) bytes
Zeros(n) == Bytes(0, n)

\* the engine writes data at the front of buffer
Overwrite(buffer, data) ==
  Cat(data, Slice(buffer, BLen(data), BLen(buffer) - BLen(data)))

RECURSIVE CatAll(_)
CatAll(ss) == IF ss = <<>> THEN <<>> ELSE Cat(ss[1], CatAll(Tail(ss)))


\* ---------------------------------------------------------------- state
VARIABLES
  alive,      \* blob object i: "none" (not constructed), "alive", "destroyed"
  m_blob,     \* blob::m_blob of object i: NULLPTR or the engine handle
  m_id,       \* blob::m_id of object i
  eng_blob,   \* engine: blob id -> [segs, stored]
  eng_hnd,    \* engine: IBlob handle h -> [st, mode, id, seg, off, rel]
  put_log,    \* per blob id, the bytes handed to put calls that returned
  last,       \* the last blob operation: arguments, engine calls, outcome
  crashed     \* the process was ended by a null dereference

blobVars == <<alive, m_blob, m_id, eng_blob, eng_hnd, put_log, last, crashed>>

\* the statement's bound arguments and parameters, the message last handed to
\* the engine, the open result set and the outcome of the last call on it
VARIABLES args, params, imsg, rs, res

fieldVars == <<args, params, imsg, rs, res>>

\* the transaction objects, the engine's transactions and the last call made
\* on a transaction or on the connection
VARIABLES tra, eng_tra, tlast

traVars == <<tra, eng_tra, tlast>>

\* the last database info request: the engine's reply, what connection::info
\* made of it and what parse_info_buffer made of that
VARIABLES cinfo

infoVars == <<cinfo>>

\* a prepared statement: the object (stmt), the width of long in the build
\* that compiled the header (0 before the first statement exists), and the
\* last call made on the statement (xlast)
VARIABLES stmt, sizeof_long, xlast

execVars == <<stmt, sizeof_long, xlast>>

\* result_set objects (rset), what the engine holds for each cursor opened
\* (eng_rs), the field a caller keeps (fld) and the last call (rlast)
VARIABLES rset, eng_rs, fld, rlast

rowsVars == <<rset, eng_rs, fld, rlast>>

\* a blob transfer in progress: the position of blob::put / blob::get() in
\* its loop
VARIABLES xfer

xferVars == <<xfer>>
vars == <<blobVars, fieldVars, traVars, infoVars, execVars, rowsVars, xferVars>>

Objs == {1, 2}                 \* the blob objects of a run, in order of construction
Ids  == Objs                   \* the ids the engine gives to created blobs
ForeignId == 0                 \* a blob some other client stored
AllIds == Ids \cup {ForeignId}
ForeignBuf == -1

Lengths   == {0, MAX_SEGMENT_SIZE, MAX_SEGMENT_SIZE + 1, 70000}
ReadSizes == {0, 20000, MAX_SEGMENT_SIZE}
InfoItems == {"isc_info_blob_num_segments", "isc_info_blob_max_segment",
              "isc_info_blob_total_length", "isc_info_blob_type"}

NoHandle == [st |-> "none", mode |-> "none", id |-> 0, seg |-> 1, off |-> 0, rel |-> 0]
NoBlob   == [segs |-> <<>>, stored |-> FALSE, exists |-> FALSE]
NoOp     == [op |-> "none", obj |-> 0, len |-> 0, inp |-> <<>>, outcome |-> "ok",
             calls |-> <<>>, ret |-> <<>>, num |-> 0, null |-> FALSE, from |-> <<1, 0>>,
             msg |-> [items |-> <<>>, length |-> 0, buffer |-> <<>>, overrun |-> FALSE]]

\* ------------------------------------------------- the engine (Firebird)
\* IBlob::getSegment on a blob stored as segs, read position (seg, off):
\* a whole segment (or its rest) that fits the buffer is RESULT_OK, a part of
\* one that does not fit is RESULT_SEGMENT, the end of the blob RESULT_NO_DATA
EngGetSegment(segs, seg, off, req) ==
  IF seg > Len(segs)
  THEN [rc |-> "RESULT_NO_DATA", data |-> <<>>, seg |-> seg, off |-> off]
  ELSE LET rem == BLen(segs[seg]) - off
       IN IF rem <= req
          THEN [rc |-> "RESULT_OK", data |-> Slice(segs[seg], off, rem),
                seg |-> seg + 1, off |-> 0]
          ELSE [rc |-> "RESULT_SEGMENT", data |-> Slice(segs[seg], off, req),
                seg |-> seg, off |-> off + req]

\* IBlob::putSegment: the bytes become the next segment of the blob
EngPutSegment(segs, data) == Append(segs, data)

RECURSIVE MaxSegLen(_)
MaxSegLen(segs) ==
  IF segs = <<>> THEN 0
  ELSE LET m == MaxSegLen(Tail(segs))
           l == BLen(segs[1])
       IN IF l > m THEN l ELSE m

\* IBlob::getInfo for one item: the number the reply carries
EngGetInfo(segs, item) ==
  CASE item = "isc_info_blob_num_segments" -> Len(segs)
    [] item = "isc_info_blob_max_segment"  -> MaxSegLen(segs)
    [] item = "isc_info_blob_total_length" -> BLen(CatAll(segs))
    [] OTHER -> 0

\* ------------------------------------------------------ blob::put family
Call(fn, len, rc, data) == [fn |-> fn, len |-> len, rc |-> rc, data |-> data]

\* the while loop of put(const void*, unsigned): <<pos, len>> per putSegment
RECURSIVE put_loop(_, _)
put_loop(pos, length) ==
  IF pos < length
  THEN LET len == Min(MAX_SEGMENT_SIZE, length - pos)
       IN << <<pos, len>> >> \o put_loop(pos + len, length)
  ELSE <<>>

\* mutant of put: the chunk length forgets the bytes already sent
RECURSIVE put_loop_nopos(_, _)
put_loop_nopos(pos, length) ==
  IF pos < length
  THEN LET len == Min(MAX_SEGMENT_SIZE, length)
       IN << <<pos, len>> >> \o put_loop_nopos(pos + len, length)
  ELSE <<>>

put_nopos(length) ==
  IF length <= MAX_SEGMENT_SIZE THEN << <<0, length>> >> ELSE put_loop_nopos(0, length)

\* blob::put(const void* buffer, unsigned length)
put(length) ==
  IF length <= MAX_SEGMENT_SIZE THEN << <<0, length>> >> ELSE put_loop(0, length)

\* the while loop of put_string(std::string const&)
RECURSIVE put_string_loop(_, _)
put_string_loop(pos, size) ==
  IF pos < size
  THEN LET length == Min(MAX_SEGMENT_SIZE, size - pos)
       IN << <<pos, length>> >> \o put_string_loop(pos + length, size)
  ELSE <<>>

\* blob::put_string(std::string const& buffer)
put_string(size) ==
  IF size <= MAX_SEGMENT_SIZE THEN << <<0, size>> >> ELSE put_string_loop(0, size)

\* the while loop of put_string(const char*)
RECURSIVE put_cstr_loop(_, _)
put_cstr_loop(pos, str_length) ==
  IF pos < str_length
  THEN LET length == Min(MAX_SEGMENT_SIZE, str_length - pos)
       IN << <<pos, length>> >> \o put_cstr_loop(pos + length, str_length)
  ELSE <<>>

\* blob::put_string(const char* buffer)
put_cstr(str_length) ==
  IF str_length <= MAX_SEGMENT_SIZE THEN << <<0, str_length>> >>
  ELSE put_cstr_loop(0, str_length)

PutVariants == {"put", "put_string", "put_cstr"}

\* the putSegment requests of one call; put(octets const&) forwards to put
PutRequests(variant, length) ==
  CASE variant = "put_string" -> put_string(length)
    [] variant = "put_cstr"   -> put_cstr(length)
    [] OTHER                  -> put(length)


\* ---------------------------------------------------------- blob::get
\* blob::get(unsigned length) after its getSegment returned r: the buffer of
\* length bytes, cut to the reported segment length when that is smaller
get_n_noresize(length, r) == Overwrite(Zeros(length), r.data)

get_n(length, r) ==
  LET buffer == Overwrite(Zeros(length), r.data)
      segment_length == BLen(r.data)
  IN IF BLen(buffer) > segment_length THEN Slice(buffer, 0, segment_length)
     ELSE buffer

\* the test that ends the loop of blob::get()
get_stops_on_ok(rc) == rc # "RESULT_SEGMENT"

get_stops(rc) == rc # "RESULT_OK" /\ rc # "RESULT_SEGMENT"

\* mutant of get_loop: the whole buffer is appended, not the segment
RECURSIVE get_loop_wholebuf(_, _, _, _, _, _, _)
get_loop_wholebuf(segs, seg, off, buffer, result, calls, fail) ==
  IF fail = Len(calls) + 1
  THEN [outcome |-> "sql_error", seg |-> seg, off |-> off, ret |-> <<>>,
        calls |-> Append(calls, Call("getSegment", MAX_SEGMENT_SIZE, "throw", <<>>))]
  ELSE LET r == EngGetSegment(segs, seg, off, MAX_SEGMENT_SIZE)
           calls2 == Append(calls, Call("getSegment", MAX_SEGMENT_SIZE, r.rc, r.data))
       IN IF r.rc # "RESULT_OK" /\ r.rc # "RESULT_SEGMENT"
          THEN [outcome |-> "ok", seg |-> r.seg, off |-> r.off, ret |-> result,
                calls |-> calls2]
          ELSE LET buffer2 == Overwrite(buffer, r.data)
                   result2 == Cat(result, buffer2)
               IN get_loop_wholebuf(segs, r.seg, r.off, buffer2, result2, calls2, fail)

\* the for (;;) loop of blob::get(): fail = k makes the k-th getSegment throw
RECURSIVE get_loop(_, _, _, _, _, _, _)
get_loop(segs, seg, off, buffer, result, calls, fail) ==
  IF fail = Len(calls) + 1
  THEN [outcome |-> "sql_error", seg |-> seg, off |-> off, ret |-> <<>>,
        calls |-> Append(calls, Call("getSegment", MAX_SEGMENT_SIZE, "throw", <<>>))]
  ELSE LET r == EngGetSegment(segs, seg, off, MAX_SEGMENT_SIZE)
           calls2 == Append(calls, Call("getSegment", MAX_SEGMENT_SIZE, r.rc, r.data))
       IN IF get_stops(r.rc)
          THEN [outcome |-> "ok", seg |-> r.seg, off |-> r.off, ret |-> result,
                calls |-> calls2]
          ELSE LET buffer2 == Overwrite(buffer, r.data)
                   result2 == Cat(result, Slice(buffer2, 0, BLen(r.data)))
               IN get_loop(segs, r.seg, r.off, buffer2, result2, calls2, fail)

\* blob::get()
get_all(segs, seg, off, fail) ==
  get_loop(segs, seg, off, Zeros(MAX_SEGMENT_SIZE), <<>>, <<>>, fail)


\* ------------------------------------------------------------- actions
Op(name, i) == [NoOp EXCEPT !.op = name, !.obj = i]

\* a member call through m_blob when m_blob is nullptr: undefined behaviour.
\* The builds either fault on the read of the vtable pointer or carry on in
\* an unpredictable way; none of them raises a C++ exception.
NullDeref(name, i) ==
  /\ \E o \in {"crash", "unpredictable"} :
        /\ last' = [Op(name, i) EXCEPT !.outcome = o, !.null = TRUE]
        /\ crashed' = (o = "crash")
  /\ UNCHANGED <<alive, m_blob, m_id, eng_blob, eng_hnd, put_log>>

NextObj == IF \E i \in Objs : alive[i] = "none"
           THEN CHOOSE i \in Objs : alive[i] = "none" /\ \A j \in 1..(i-1) : alive[j] # "none"
           ELSE 0
FreshId == IF \E id \in Ids : ~eng_blob[id].exists
           THEN CHOOSE id \in Ids : ~eng_blob[id].exists /\ \A j \in 1..(id-1) : eng_blob[j].exists
           ELSE 0

\* transaction::create_blob with blob::blob(att, tra, status)
create_blob(fail) ==
  LET i == NextObj
      id == FreshId
  IN /\ ~crashed /\ i # 0 /\ id # 0
     /\ IF fail
        THEN /\ last' = [Op("create_blob", i) EXCEPT !.outcome = "sql_error",
                           !.calls = << Call("createBlob", 0, "throw", <<>>) >>]
             /\ UNCHANGED <<alive, m_blob, m_id, eng_blob, eng_hnd>>
        ELSE /\ alive' = [alive EXCEPT ![i] = "alive"]
             /\ m_blob' = [m_blob EXCEPT ![i] = i]
             /\ m_id' = [m_id EXCEPT ![i] = id]
             /\ eng_blob' = [eng_blob EXCEPT ![id] =
                               [segs |-> <<>>, stored |-> FALSE, exists |-> TRUE]]
             /\ eng_hnd' = [eng_hnd EXCEPT ![i] =
                               [NoHandle EXCEPT !.st = "open", !.mode = "write", !.id = id]]
             /\ last' = [Op("create_blob", i) EXCEPT
                           !.calls = << Call("createBlob", 0, "RESULT_OK", <<>>) >>]
     /\ UNCHANGED <<put_log, crashed>>
     /\ UNCHANGED <<fieldVars, traVars, infoVars, execVars, rowsVars, xferVars>>

\* transaction::open_blob with blob::blob(att, tra, status, id)
open_blob(id, fail) ==
  LET i == NextObj
  IN /\ ~crashed /\ i # 0
     /\ IF fail \/ ~eng_blob[id].stored
        THEN /\ last' = [Op("open_blob", i) EXCEPT !.outcome = "sql_error",
                           !.calls = << Call("openBlob", 0, "throw", <<>>) >>]
             /\ UNCHANGED <<alive, m_blob, m_id, eng_blob, eng_hnd>>
        ELSE /\ alive' = [alive EXCEPT ![i] = "alive"]
             /\ m_blob' = [m_blob EXCEPT ![i] = i]
             /\ m_id' = [m_id EXCEPT ![i] = id]
             /\ eng_hnd' = [eng_hnd EXCEPT ![i] =
                               [NoHandle EXCEPT !.st = "open", !.mode = "read", !.id = id]]
             /\ last' = [Op("open_blob", i) EXCEPT
                           !.calls = << Call("openBlob", 0, "RESULT_OK", <<>>) >>]
             /\ UNCHANGED eng_blob
     /\ UNCHANGED <<put_log, crashed>>
     /\ UNCHANGED <<fieldVars, traVars, infoVars, execVars, rowsVars, xferVars>>

\* the value blob::close leaves in m_blob once IBlob::close has returned
closed_handle_kept(h) == h

closed_handle(h) == NULLPTR

\* blob::close
close(i, fail) ==
  /\ ~crashed /\ alive[i] = "alive"
  /\ IF m_blob[i] = NULLPTR THEN NullDeref("close", i)
     ELSE LET h == m_blob[i]
              id == eng_hnd[h].id
          IN /\ IF fail
                THEN /\ last' = [Op("close", i) EXCEPT !.outcome = "sql_error",
                                   !.calls = << Call("close", 0, "throw", <<>>) >>]
                     /\ UNCHANGED <<m_blob, eng_blob, eng_hnd>>
                ELSE /\ eng_hnd' = [eng_hnd EXCEPT ![h].st = "closed", ![h].rel = @ + 1,
                                                    ![h].seg = 1, ![h].off = 0]
                     /\ eng_blob' = IF eng_hnd[h].mode = "write"
                                    THEN [eng_blob EXCEPT ![id].stored = TRUE]
                                    ELSE eng_blob
                     /\ m_blob' = [m_blob EXCEPT ![i] = closed_handle(h)]
                     /\ last' = [Op("close", i) EXCEPT
                                   !.calls = << Call("close", 0, "RESULT_OK", <<>>) >>]
             /\ UNCHANGED <<alive, m_id, put_log, crashed>>
  /\ UNCHANGED <<fieldVars, traVars, infoVars, execVars, rowsVars, xferVars>>

\* blob::info and its wrappers num_segments, max_segment, total_length, type
info(i, item, fail) ==
  /\ ~crashed /\ alive[i] = "alive"
  /\ IF m_blob[i] = NULLPTR THEN NullDeref("info", i)
     ELSE LET h == m_blob[i]
              id == eng_hnd[h].id
          IN /\ IF fail
                THEN last' = [Op("info", i) EXCEPT !.outcome = "sql_error",
                                !.calls = << Call("getInfo", 0, "throw", <<>>) >>]
                ELSE last' = [Op("info", i) EXCEPT
                                !.num = EngGetInfo(eng_blob[id].segs, item),
                                !.calls = << Call("getInfo", 0, "RESULT_OK", <<>>) >>]
             /\ UNCHANGED <<alive, m_blob, m_id, eng_blob, eng_hnd, put_log, crashed>>
  /\ UNCHANGED <<fieldVars, traVars, infoVars, execVars, rowsVars, xferVars>>

\* blob::get(unsigned length)
get(i, length, fail) ==
  /\ ~crashed /\ alive[i] = "alive"
  /\ IF m_blob[i] = NULLPTR THEN NullDeref("get_n", i)
     ELSE LET h == m_blob[i]
              hd == eng_hnd[h]
              r == EngGetSegment(eng_blob[hd.id].segs, hd.seg, hd.off, length)
          IN /\ IF fail \/ hd.mode # "read"
                THEN /\ last' = [Op("get_n", i) EXCEPT !.len = length,
                                   !.from = <<hd.seg, hd.off>>,
                                   !.outcome = "sql_error",
                                   !.calls = << Call("getSegment", length, "throw", <<>>) >>]
                     /\ UNCHANGED eng_hnd
                ELSE /\ last' = [Op("get_n", i) EXCEPT !.len = length,
                                   !.from = <<hd.seg, hd.off>>,
                                   !.ret = get_n(length, r),
                                   !.calls = << Call("getSegment", length, r.rc, r.data) >>]
                     /\ eng_hnd' = [eng_hnd EXCEPT ![h].seg = r.seg, ![h].off = r.off]
             /\ UNCHANGED <<alive, m_blob, m_id, eng_blob, put_log, crashed>>
  /\ UNCHANGED <<fieldVars, traVars, infoVars, execVars, rowsVars, xferVars>>

\* blob::get() and blob::get_string(), which converts the result of get()
get_whole(i, name, failAt) ==
  /\ ~crashed /\ alive[i] = "alive"
  /\ IF m_blob[i] = NULLPTR THEN NullDeref(name, i)
     ELSE LET h == m_blob[i]
              hd == eng_hnd[h]
              segs == eng_blob[hd.id].segs
              n == Len(get_all(segs, hd.seg, hd.off, 0).calls)
              f == IF hd.mode # "read" THEN 1 ELSE failAt
              g == get_all(segs, hd.seg, hd.off, f)
          IN /\ f <= n
             /\ last' = [Op(name, i) EXCEPT !.outcome = g.outcome, !.ret = g.ret,
                           !.from = <<hd.seg, hd.off>>, !.calls = g.calls]
             /\ eng_hnd' = [eng_hnd EXCEPT ![h].seg = g.seg, ![h].off = g.off]
             /\ UNCHANGED <<alive, m_blob, m_id, eng_blob, put_log, crashed>>
  /\ UNCHANGED <<fieldVars, traVars, infoVars, execVars, rowsVars, xferVars>>

RECURSIVE SumSegs(_)
SumSegs(ids) == IF ids = {} THEN 0
                ELSE LET id == CHOOSE x \in ids : TRUE
                     IN Len(eng_blob[id].segs) + SumSegs(ids \ {id})
Written == SumSegs(Ids)

\* blob::put(const void*, unsigned), put(octets const&), put_string (both)
put_any(i, variant, length, failAt) ==
  /\ ~crashed /\ alive[i] = "alive"
  /\ IF m_blob[i] = NULLPTR THEN NullDeref(variant, i)
     ELSE LET h == m_blob[i]
              hd == eng_hnd[h]
              input == Bytes(i, length)   \* object i writes from caller buffer i
              mem == Memory(i, length)
              reqs == PutRequests(variant, length)
              f == IF hd.mode # "write" THEN 1 ELSE failAt
              done == IF f = 0 THEN Len(reqs) ELSE f - 1
              sent == [k \in 1..done |->
                         Call("putSegment", reqs[k][2], "RESULT_OK",
                              Slice(mem, reqs[k][1], reqs[k][2]))]
              thrown == IF f = 0 THEN <<>>
                        ELSE << Call("putSegment", reqs[f][2], "throw", <<>>) >>
          IN /\ f <= Len(reqs)
             /\ Written + Len(reqs) <= MaxSegs
             /\ last' = [Op(variant, i) EXCEPT !.len = length, !.inp = input,
                           !.outcome = IF f = 0 THEN "ok" ELSE "sql_error",
                           !.calls = sent \o thrown]
             /\ eng_blob' = [eng_blob EXCEPT ![hd.id].segs =
                               @ \o [k \in 1..done |-> sent[k].data]]
             /\ put_log' = IF f = 0 THEN [put_log EXCEPT ![hd.id] = Cat(@, input)]
                            ELSE put_log
             /\ UNCHANGED <<alive, m_blob, m_id, eng_hnd, crashed>>
  /\ UNCHANGED <<fieldVars, traVars, infoVars, execVars, rowsVars, xferVars>>

\* blob::~blob
destroy(i) ==
  /\ ~crashed /\ alive[i] = "alive"
  /\ alive' = [alive EXCEPT ![i] = "destroyed"]
  /\ IF m_blob[i] # NULLPTR
     THEN /\ eng_hnd' = [eng_hnd EXCEPT ![m_blob[i]].st = "released", ![m_blob[i]].rel = @ + 1,
                                         ![m_blob[i]].seg = 1, ![m_blob[i]].off = 0]
          /\ last' = [Op("~blob", i) EXCEPT !.calls = << Call("release", 0, "RESULT_OK", <<>>) >>]
     ELSE /\ UNCHANGED eng_hnd
          /\ last' = Op("~blob", i)
  /\ UNCHANGED <<m_blob, m_id, eng_blob, put_log, crashed>>
  /\ UNCHANGED <<fieldVars, traVars, infoVars, execVars, rowsVars, xferVars>>

\* the engine calls that fail in SpecBlob: none but those the engine must
\* refuse (reading a blob opened for writing, opening a blob not stored, ...)
NoFault == {FALSE}
NoFaultAt == {0}

NextBlob ==
  \/ \E fail \in NoFault : create_blob(fail)
  \/ \E id \in AllIds, fail \in NoFault : open_blob(id, fail)
  \/ \E i \in Objs, fail \in NoFault : close(i, fail)
  \/ \E i \in Objs, item \in InfoItems, fail \in NoFault : info(i, item, fail)
  \/ \E i \in Objs, length \in ReadSizes, fail \in NoFault : get(i, length, fail)
  \/ \E i \in Objs, name \in {"get", "get_string"}, failAt \in NoFaultAt :
        get_whole(i, name, failAt)
  \/ \E i \in Objs, variant \in PutVariants, length \in Lengths, failAt \in NoFaultAt :
        put_any(i, variant, length, failAt)
  \/ \E i \in Objs : destroy(i)



\* ======================================================================
\* The parameter encoder (input_params) and the column decoder (field).
\* Buffers are sequences of bytes 0..255; an object of a C++ type is its
\* little-endian object representation.  The widths are those of the data
\* model the header is written for, in which long has 32 bits (it defines
\* add(long) beside add(int64_t) and as<long> beside as<int64_t>, and stores
\* both int and long in SQL_LONG slots).
\* ======================================================================

\* sizeof of the C++ types the casts name
SizeOf(ctype) ==
  CASE ctype \in {"bool", "char", "unsigned char"} -> 1
    [] ctype \in {"short", "unsigned short"} -> 2
    [] ctype \in {"int", "long", "unsigned long", "float", "ISC_DATE", "ISC_TIME"} -> 4
    [] ctype \in {"int64_t", "uint64_t", "double", "ISC_QUAD", "FB_DEC16",
                  "ISC_TIMESTAMP", "ISC_TIME_TZ"} -> 8
    [] ctype = "ISC_TIMESTAMP_TZ" -> 12
    [] ctype \in {"FB_DEC34", "FB_I128"} -> 16

\* the little-endian two's complement representation of v in w bytes
RECURSIVE LE(_, _)
LE(v, w) == IF w = 0 THEN <<>> ELSE << v % 256 >> \o LE(v \div 256, w - 1)

Fill(b, n) == [k \in 1..n |-> b]

\* integral conversion of an object representation to w bytes
SignExtend(bytes, w) ==
  IF w <= Len(bytes) THEN SubSeq(bytes, 1, w)
  ELSE bytes \o Fill(IF bytes[Len(bytes)] >= 128 THEN 255 ELSE 0, w - Len(bytes))

ZeroExtend(bytes, w) ==
  IF w <= Len(bytes) THEN SubSeq(bytes, 1, w)
  ELSE bytes \o Fill(0, w - Len(bytes))

\* the number a two's complement representation stands for
RECURSIVE UNum(_)
UNum(bytes) == IF bytes = <<>> THEN 0 ELSE bytes[1] + 256 * UNum(Tail(bytes))

SNum(bytes) ==
  IF bytes[Len(bytes)] >= 128
  THEN UNum([k \in 1..Len(bytes) |-> bytes[k] - 255]) - 1
  ELSE UNum(bytes)

RECURSIVE Pow10(_)
Pow10(n) == IF n <= 0 THEN 1 ELSE 10 * Pow10(n - 1)

\* ------------------------------------------------------------ wire types
FixedTypes == {"SQL_BOOLEAN", "SQL_SHORT", "SQL_LONG", "SQL_INT64", "SQL_FLOAT",
               "SQL_DOUBLE", "SQL_DEC16", "SQL_DEC34", "SQL_INT128", "SQL_BLOB",
               "SQL_TYPE_DATE", "SQL_TYPE_TIME", "SQL_TIME_TZ", "SQL_TIMESTAMP",
               "SQL_TIMESTAMP_TZ", "SQL_TIME_TZ_EX", "SQL_TIMESTAMP_TZ_EX"}
WireTypes == FixedTypes \cup {"SQL_TEXT", "SQL_VARYING"}

MY_SQL_OCTETS == "MY_SQL_OCTETS"

type_name(type) ==
  CASE type = "SQL_ARRAY" -> "ARRAY"
    [] type = "SQL_BLOB" -> "BLOB"
    [] type = "SQL_BOOLEAN" -> "BOOLEAN"
    [] type = "SQL_DEC16" -> "DEC16"
    [] type = "SQL_DEC34" -> "DEC34"
    [] type = "SQL_DOUBLE" -> "DOUBLE"
    [] type = "SQL_D_FLOAT" -> "D_FLOAT"
    [] type = "SQL_FLOAT" -> "FLOAT"
    [] type = "SQL_INT128" -> "INT128"
    [] type = "SQL_INT64" -> "BIGINT"
    [] type = "SQL_LONG" -> "INT"
    [] type = "SQL_SHORT" -> "SMALLINT"
    [] type = "SQL_TEXT" -> "CHAR"
    [] type = "SQL_TIMESTAMP" -> "TIMESTAMP"
    [] type = "SQL_TIMESTAMP_TZ" -> "TIMESTAMP_TZ"
    [] type = "SQL_TIMESTAMP_TZ_EX" -> "TIMESTAMP_TZ_EX"
    [] type = "SQL_TIME_TZ" -> "TIME_TZ"
    [] type = "SQL_TIME_TZ_EX" -> "TIME_TZ_EX"
    [] type = "SQL_TYPE_DATE" -> "DATE"
    [] type = "SQL_TYPE_TIME" -> "TIME"
    [] type = "SQL_VARYING" -> "VARCHAR"
    [] OTHER -> "UNKNOWN"

\* ------------------------------------- the metadata authority (Firebird)
\* the data length the engine gives a slot of a fixed-width type
EngTypeLength(type) ==
  CASE type = "SQL_BOOLEAN" -> 1
    [] type = "SQL_SHORT" -> 2
    [] type \in {"SQL_LONG", "SQL_FLOAT", "SQL_TYPE_DATE", "SQL_TYPE_TIME"} -> 4
    [] type \in {"SQL_INT64", "SQL_DOUBLE", "SQL_DEC16", "SQL_BLOB", "SQL_TIMESTAMP",
                 "SQL_TIME_TZ", "SQL_TIME_TZ_EX"} -> 8
    [] type \in {"SQL_TIMESTAMP_TZ", "SQL_TIMESTAMP_TZ_EX"} -> 12
    [] type \in {"SQL_DEC34", "SQL_INT128"} -> 16
    [] OTHER -> 0

EngTypeAlign(type) ==
  CASE type \in {"SQL_BOOLEAN", "SQL_TEXT"} -> 1
    [] type \in {"SQL_SHORT", "SQL_VARYING"} -> 2
    [] type \in {"SQL_INT64", "SQL_DOUBLE", "SQL_DEC16", "SQL_DEC34", "SQL_INT128"} -> 8
    [] OTHER -> 4

AlignUp(n, a) == ((n + a - 1) \div a) * a

\* IMetadataBuilder::setType / setLength / setSubType results for one slot
Item(type, length, scale, subtype) ==
  [type |-> type, nullable |-> TRUE, scale |-> scale, subtype |-> subtype,
   length |-> IF type \in FixedTypes THEN EngTypeLength(type) ELSE length,
   offset |-> 0, nullOffset |-> 0]

\* IMetadataBuilder::getMetadata: the slots laid out one after the other, each
\* aligned for its type and followed by its aligned 2-byte null indicator
RECURSIVE EngLayout(_, _, _)
EngLayout(items, k, at) ==
  IF k > Len(items) THEN [items |-> items, length |-> at]
  ELSE LET it == items[k]
           off == AlignUp(at, EngTypeAlign(it.type))
           size == IF it.type = "SQL_VARYING" THEN it.length + 2 ELSE it.length
           noff == AlignUp(off + size, 2)
       IN EngLayout([items EXCEPT ![k].offset = off, ![k].nullOffset = noff],
                    k + 1, noff + 2)

EngMetadata(items) == EngLayout(items, 1, 0)

\* ------------------------------------------------------------ input_params
\* iparam: the wire type tag and the bytes of the union member (or of the
\* str_value / octets_value member) that add() stored
IParam(type, val) == [type |-> type, subtype |-> 0, val |-> val]

\* input_params::add overloads, by the C++ type of the argument
add_type(kind) ==
  CASE kind = "bool" -> "SQL_BOOLEAN"
    [] kind = "short" -> "SQL_SHORT"
    [] kind \in {"int", "long"} -> "SQL_LONG"
    [] kind = "int64_t" -> "SQL_INT64"
    [] kind = "float" -> "SQL_FLOAT"
    [] kind = "double" -> "SQL_DOUBLE"
    [] kind = "FB_DEC16" -> "SQL_DEC16"
    [] kind = "FB_DEC34" -> "SQL_DEC34"
    [] kind = "FB_I128" -> "SQL_INT128"
    [] kind \in {"std::string", "const char*", "char"} -> "SQL_TEXT"
    [] kind = "date" -> "SQL_TYPE_DATE"
    [] kind = "time" -> "SQL_TYPE_TIME"
    [] kind = "time_tz" -> "SQL_TIME_TZ"
    [] kind = "timestamp" -> "SQL_TIMESTAMP"
    [] kind = "timestamp_tz" -> "SQL_TIMESTAMP_TZ"
    [] kind = "octets" -> MY_SQL_OCTETS
    [] kind = "blob" -> "SQL_BLOB"
    [] kind = "nullptr_t" -> "SQL_NULL"

\* the union member add() assigns: int and long both go to long_value
add_member(kind) ==
  CASE kind \in {"int", "long"} -> "long"
    [] kind = "bool" -> "unsigned char"
    [] kind = "blob" -> "ISC_QUAD"
    [] kind = "date" -> "ISC_DATE"
    [] kind = "time" -> "ISC_TIME"
    [] kind = "time_tz" -> "ISC_TIME_TZ"
    [] kind = "timestamp" -> "ISC_TIMESTAMP"
    [] kind = "timestamp_tz" -> "ISC_TIMESTAMP_TZ"
    [] OTHER -> kind

\* x is the object representation of the argument (the characters of a text,
\* the encoded calendar value); the member keeps sizeof(member) bytes of it
add_value(kind, x) ==
  IF kind \in {"std::string", "const char*", "char", "octets"} THEN IParam(add_type(kind), x)
  ELSE IF kind = "nullptr_t" THEN IParam("SQL_NULL", <<>>)
  ELSE IParam(add_type(kind), SignExtend(x, SizeOf(add_member(kind))))

\* make_input, first loop: the calls made on the metadata builder for one slot
builder_calls(param) ==
  << [fn |-> "setType",
      arg |-> IF param.type = "SQL_NULL" THEN "SQL_SHORT"
              ELSE IF param.type = MY_SQL_OCTETS THEN "SQL_TEXT"
              ELSE param.type] >>
  \o (IF param.type = "SQL_TEXT" \/ param.type = MY_SQL_OCTETS
        THEN << [fn |-> "setLength", arg |-> Len(param.val)] >> ELSE <<>>)
  \o (IF param.type = "SQL_BLOB"
        THEN << [fn |-> "setSubType", arg |-> param.subtype] >> ELSE <<>>)

builder_item_no_placeholder(param) ==
  Item(IF param.type = MY_SQL_OCTETS THEN "SQL_TEXT" ELSE param.type,
       IF param.type = "SQL_TEXT" \/ param.type = MY_SQL_OCTETS THEN Len(param.val) ELSE 0,
       0, 0)

\* make_input, first loop: the type, length and subtype set on the builder
builder_item(param) ==
  LET type == IF param.type = "SQL_NULL" THEN "SQL_SHORT"
              ELSE IF param.type = MY_SQL_OCTETS THEN "SQL_TEXT"
              ELSE param.type
      length == IF param.type = "SQL_TEXT" \/ param.type = MY_SQL_OCTETS
                THEN Len(param.val) ELSE 0
  IN Item(type, length, 0, IF param.type = "SQL_BLOB" THEN param.subtype ELSE 0)

\* a store of bytes at &buffer[offset]; a store that does not fit the buffer
\* writes past the allocation
WriteAt(buffer, offset, bytes) ==
  [k \in 1..Len(buffer) |->
     IF k > offset /\ k <= offset + Len(bytes) THEN bytes[k - offset] ELSE buffer[k]]

Overruns(buffer, offset, bytes) == offset + Len(bytes) > Len(buffer)

\* the C++ type the switch of make_input casts the slot to
cast_type(type) ==
  CASE type = "SQL_BOOLEAN" -> "unsigned char"
    [] type = "SQL_SHORT" -> "short"
    [] type = "SQL_LONG" -> "long"
    [] type = "SQL_INT64" -> "int64_t"
    [] type = "SQL_FLOAT" -> "float"
    [] type = "SQL_DOUBLE" -> "double"
    [] type = "SQL_DEC16" -> "FB_DEC16"
    [] type = "SQL_DEC34" -> "FB_DEC34"
    [] type = "SQL_INT128" -> "FB_I128"
    [] type = "SQL_BLOB" -> "ISC_QUAD"
    [] type = "SQL_TYPE_DATE" -> "ISC_DATE"
    [] type = "SQL_TYPE_TIME" -> "ISC_TIME"
    [] type = "SQL_TIME_TZ" -> "ISC_TIME_TZ"
    [] type = "SQL_TIMESTAMP" -> "ISC_TIMESTAMP"
    [] type = "SQL_TIMESTAMP_TZ" -> "ISC_TIMESTAMP_TZ"

slot_bytes_narrow(param) ==
  IF param.type \in {"SQL_TEXT", MY_SQL_OCTETS, "SQL_NULL"} THEN param.val
  ELSE SubSeq(param.val, 1, SizeOf(cast_type(param.type)) - 1)

\* the bytes the switch of make_input stores at the slot's offset
slot_bytes(param) ==
  CASE param.type \in {"SQL_TEXT", MY_SQL_OCTETS} -> param.val
    [] param.type = "SQL_VARYING" -> LE(Len(param.val), 2) \o param.val
    [] param.type = "SQL_NULL" -> <<>>
    [] OTHER -> SubSeq(param.val, 1, SizeOf(cast_type(param.type)))

null_never(param) == LE(0, 2)

\* *null = (param.type == SQL_NULL) ? -1 : 0
null_bytes(param) == IF param.type = "SQL_NULL" THEN LE(-1, 2) ELSE LE(0, 2)

write_pass_skipped(pars, items, buffer, k, overrun) == [buffer |-> buffer, overrun |-> overrun]

\* make_input, second loop, from slot k on
RECURSIVE write_pass(_, _, _, _, _)
write_pass(pars, items, buffer, k, overrun) ==
  IF k > Len(pars) THEN [buffer |-> buffer, overrun |-> overrun]
  ELSE LET nb == null_bytes(pars[k])
           sb == slot_bytes(pars[k])
           b1 == WriteAt(buffer, items[k].nullOffset, nb)
           b2 == WriteAt(b1, items[k].offset, sb)
       IN write_pass(pars, items, b2, k + 1,
                     overrun \/ Overruns(buffer, items[k].nullOffset, nb)
                             \/ Overruns(b1, items[k].offset, sb))

\* input_params::make_input: the metadata and the filled buffer
make_input(pars) ==
  LET imeta == EngMetadata([k \in 1..Len(pars) |-> builder_item(pars[k])])
      w == write_pass(pars, imeta.items, Fill(0, imeta.length), 1, FALSE)
  IN [items |-> imeta.items, length |-> imeta.length, buffer |-> w.buffer,
      overrun |-> w.overrun]

\* -------------------------------------------------------------------- field
\* field::cast<T>(): the sizeof(T) bytes at the column's offset
cast(ctype, it, buffer) == SubSeq(buffer, it.offset + 1, it.offset + SizeOf(ctype))

\* a decoded value: bytes (the object representation of the result), or the
\* number num / den a conversion to floating point stands for
Val(kind, b, num, den) == [kind |-> kind, b |-> b, num |-> num, den |-> den]
NoVal == Val("none", <<>>, 0, 1)
Obj(b) == Val("object", b, 0, 1)

Returned(v) == [st |-> "ok", text |-> "", from |-> "", to |-> "", val |-> v]

\* CHECK_TYPE(x): logic_error "Wrong type: x"
WrongType(x) ==
  [st |-> "logic_error", text |-> "Wrong type: ", from |-> "", to |-> x, val |-> NoVal]

\* INVALID_CONVERSION(from, to): logic_error
\* "Invalid conversion from type <type_name(m_type)> to <to>"
INVALID_CONVERSION(m_type, to) ==
  [st |-> "logic_error", text |-> "Invalid conversion from type ",
   from |-> type_name(m_type), to |-> to, val |-> NoVal]

\* pow(10, e) as a fraction
pow10(e) == IF e >= 0 THEN [n |-> Pow10(e), d |-> 1] ELSE [n |-> 1, d |-> Pow10(-e)]

cvt_noscale(ctype, it, buffer) == Val("number", <<>>, SNum(cast(ctype, it, buffer)), 1)

\* field::cvt_double / cvt_float of cast<ctype>()
cvt_double(ctype, it, buffer) ==
  LET value == SNum(cast(ctype, it, buffer))
      p == pow10(-it.scale)
  IN IF it.scale # 0 THEN Val("number", <<>>, value * p.d, p.n)
     ELSE Val("number", <<>>, value, 1)

cvt_float(ctype, it, buffer) ==
  LET value == SNum(cast(ctype, it, buffer))
      p == pow10(-it.scale)
  IN IF it.scale # 0 THEN Val("number", <<>>, value * p.d, p.n)
     ELSE Val("number", <<>>, value, 1)

Ieee(ctype, it, buffer) == Val(ctype, cast(ctype, it, buffer), 0, 1)

as_ISC_QUAD(it, buffer) ==
  IF it.type # "SQL_BLOB" THEN WrongType("SQL_BLOB")
  ELSE Returned(Obj(cast("ISC_QUAD", it, buffer)))

\* the calendar codec is the engine's: a decoded date or time is identified by
\* its encoded ISC_DATE / ISC_TIME
as_date(it, buffer) ==
  CASE it.type = "SQL_TYPE_DATE" -> Returned(Obj(cast("ISC_DATE", it, buffer)))
    [] it.type = "SQL_TIMESTAMP" ->
         Returned(Obj(SubSeq(cast("ISC_TIMESTAMP", it, buffer), 1, 4)))
    [] it.type = "SQL_TIMESTAMP_TZ" ->
         Returned(Obj(SubSeq(cast("ISC_TIMESTAMP_TZ", it, buffer), 1, 4)))
    [] OTHER -> INVALID_CONVERSION(it.type, "DATE")

as_time(it, buffer) ==
  CASE it.type = "SQL_TYPE_TIME" -> Returned(Obj(cast("ISC_TIME", it, buffer)))
    [] it.type = "SQL_TIMESTAMP" ->
         Returned(Obj(SubSeq(cast("ISC_TIMESTAMP", it, buffer), 5, 8)))
    [] it.type = "SQL_TIMESTAMP_TZ" ->
         Returned(Obj(SubSeq(cast("ISC_TIMESTAMP_TZ", it, buffer), 5, 8)))
    [] OTHER -> INVALID_CONVERSION(it.type, "TIME")

as_time_tz(it, buffer) ==
  CASE it.type = "SQL_TIME_TZ" ->
         Returned(Obj(SubSeq(cast("ISC_TIME_TZ", it, buffer), 1, 6)))
    [] it.type = "SQL_TIMESTAMP_TZ" ->
         Returned(Obj(SubSeq(cast("ISC_TIMESTAMP_TZ", it, buffer), 5, 10)))
    [] OTHER -> INVALID_CONVERSION(it.type, "TIME WITH TIME ZONE")

as_timestamp(it, buffer) ==
  CASE it.type = "SQL_TIMESTAMP" -> Returned(Obj(cast("ISC_TIMESTAMP", it, buffer)))
    [] it.type = "SQL_TIMESTAMP_TZ" ->
         Returned(Obj(SubSeq(cast("ISC_TIMESTAMP_TZ", it, buffer), 1, 8)))
    [] OTHER -> INVALID_CONVERSION(it.type, "TIMESTAMP")

as_timestamp_tz(it, buffer) ==
  IF it.type # "SQL_TIMESTAMP_TZ" THEN WrongType("SQL_TIMESTAMP_TZ")
  ELSE Returned(Obj(SubSeq(cast("ISC_TIMESTAMP_TZ", it, buffer), 1, 10)))

as_bool(it, buffer) ==
  IF it.type # "SQL_BOOLEAN" THEN WrongType("SQL_BOOLEAN")
  ELSE Returned(Obj(<< IF cast("char", it, buffer) # <<0>> THEN 1 ELSE 0 >>))

as_short(it, buffer) ==
  CASE it.type = "SQL_SHORT" -> Returned(Obj(cast("short", it, buffer)))
    [] it.type = "SQL_BOOLEAN" ->
         Returned(Obj(ZeroExtend(cast("unsigned char", it, buffer), SizeOf("short"))))
    [] OTHER -> INVALID_CONVERSION(it.type, "SMALLINT")

as_long(it, buffer) ==
  CASE it.type = "SQL_LONG" -> Returned(Obj(cast("long", it, buffer)))
    [] it.type = "SQL_SHORT" ->
         Returned(Obj(SignExtend(cast("short", it, buffer), SizeOf("long"))))
    [] it.type = "SQL_BOOLEAN" ->
         Returned(Obj(ZeroExtend(cast("unsigned char", it, buffer), SizeOf("long"))))
    [] OTHER -> INVALID_CONVERSION(it.type, "INTEGER")

as_int(it, buffer) ==
  CASE it.type = "SQL_LONG" -> Returned(Obj(cast("int", it, buffer)))
    [] it.type = "SQL_SHORT" ->
         Returned(Obj(SignExtend(cast("short", it, buffer), SizeOf("int"))))
    [] it.type = "SQL_BOOLEAN" ->
         Returned(Obj(ZeroExtend(cast("unsigned char", it, buffer), SizeOf("int"))))
    [] OTHER -> INVALID_CONVERSION(it.type, "INTEGER")

as_int64_t(it, buffer) ==
  CASE it.type = "SQL_INT64" -> Returned(Obj(cast("int64_t", it, buffer)))
    [] it.type = "SQL_LONG" ->
         Returned(Obj(SignExtend(cast("long", it, buffer), SizeOf("int64_t"))))
    [] it.type = "SQL_SHORT" ->
         Returned(Obj(SignExtend(cast("short", it, buffer), SizeOf("int64_t"))))
    [] it.type = "SQL_BOOLEAN" ->
         Returned(Obj(ZeroExtend(cast("unsigned char", it, buffer), SizeOf("int64_t"))))
    [] OTHER -> INVALID_CONVERSION(it.type, "BIGINT")

\* { cast<unsigned ...>(), 0 }: the low word from the unsigned value, the high
\* word 0
as_FB_I128(it, buffer) ==
  CASE it.type = "SQL_INT128" -> Returned(Obj(cast("FB_I128", it, buffer)))
    [] it.type = "SQL_INT64" ->
         Returned(Obj(ZeroExtend(cast("uint64_t", it, buffer), 8) \o Fill(0, 8)))
    [] it.type = "SQL_LONG" ->
         Returned(Obj(ZeroExtend(cast("unsigned long", it, buffer), 8) \o Fill(0, 8)))
    [] it.type = "SQL_SHORT" ->
         Returned(Obj(ZeroExtend(cast("unsigned short", it, buffer), 8) \o Fill(0, 8)))
    [] it.type = "SQL_BOOLEAN" ->
         Returned(Obj(ZeroExtend(cast("unsigned char", it, buffer), 8) \o Fill(0, 8)))
    [] OTHER -> INVALID_CONVERSION(it.type, "INT128")

as_double(it, buffer) ==
  CASE it.type = "SQL_DOUBLE" -> Returned(Ieee("double", it, buffer))
    [] it.type = "SQL_FLOAT" -> Returned(Ieee("float", it, buffer))
    [] it.type = "SQL_INT64" -> Returned(cvt_double("int64_t", it, buffer))
    [] it.type = "SQL_LONG" -> Returned(cvt_double("long", it, buffer))
    [] it.type = "SQL_SHORT" -> Returned(cvt_double("short", it, buffer))
    [] OTHER -> INVALID_CONVERSION(it.type, "DOUBLE PRECISION")

as_float(it, buffer) ==
  CASE it.type = "SQL_FLOAT" -> Returned(Ieee("float", it, buffer))
    [] it.type = "SQL_INT64" -> Returned(cvt_float("int64_t", it, buffer))
    [] it.type = "SQL_LONG" -> Returned(cvt_float("long", it, buffer))
    [] it.type = "SQL_SHORT" -> Returned(cvt_float("short", it, buffer))
    [] OTHER -> INVALID_CONVERSION(it.type, "FLOAT")

as_FB_DEC16(it, buffer) ==
  IF it.type # "SQL_DEC16" THEN WrongType("SQL_DEC16")
  ELSE Returned(Obj(cast("FB_DEC16", it, buffer)))

as_FB_DEC34(it, buffer) ==
  IF it.type # "SQL_DEC34" THEN WrongType("SQL_DEC34")
  ELSE Returned(Obj(cast("FB_DEC34", it, buffer)))

\* the bytes after the 2-byte length prefix of a SQL_VARYING slot
varying(it, buffer) ==
  LET length == SNum(cast("short", it, buffer))
  IN SubSeq(buffer, it.offset + SizeOf("short") + 1, it.offset + SizeOf("short") + length)

as_string_short(it, buffer) ==
  CASE it.type = "SQL_VARYING" -> Returned(Obj(varying(it, buffer)))
    [] it.type = "SQL_TEXT" ->
         Returned(Obj(SubSeq(buffer, it.offset + 1, it.offset + it.length - 1)))
    [] OTHER -> INVALID_CONVERSION(it.type, "TEXT")

as_string(it, buffer) ==
  CASE it.type = "SQL_VARYING" -> Returned(Obj(varying(it, buffer)))
    [] it.type = "SQL_TEXT" ->
         Returned(Obj(SubSeq(buffer, it.offset + 1, it.offset + it.length)))
    [] OTHER -> INVALID_CONVERSION(it.type, "TEXT")

as_octets(it, buffer) ==
  IF it.type = "SQL_VARYING" THEN Returned(Obj(varying(it, buffer)))
  ELSE Returned(Obj(SubSeq(buffer, it.offset + 1, it.offset + it.length)))

\* the specializations of field::as<T>
Accessors == {"ISC_QUAD", "date", "time", "time_tz", "timestamp", "timestamp_tz", "bool",
              "short", "long", "int", "int64_t", "FB_I128", "double", "float",
              "FB_DEC16", "FB_DEC34", "std::string", "octets"}

as(T, it, buffer) ==
  CASE T = "ISC_QUAD" -> as_ISC_QUAD(it, buffer)
    [] T = "date" -> as_date(it, buffer)
    [] T = "time" -> as_time(it, buffer)
    [] T = "time_tz" -> as_time_tz(it, buffer)
    [] T = "timestamp" -> as_timestamp(it, buffer)
    [] T = "timestamp_tz" -> as_timestamp_tz(it, buffer)
    [] T = "bool" -> as_bool(it, buffer)
    [] T = "short" -> as_short(it, buffer)
    [] T = "long" -> as_long(it, buffer)
    [] T = "int" -> as_int(it, buffer)
    [] T = "int64_t" -> as_int64_t(it, buffer)
    [] T = "FB_I128" -> as_FB_I128(it, buffer)
    [] T = "double" -> as_double(it, buffer)
    [] T = "float" -> as_float(it, buffer)
    [] T = "FB_DEC16" -> as_FB_DEC16(it, buffer)
    [] T = "FB_DEC34" -> as_FB_DEC34(it, buffer)
    [] T = "std::string" -> as_string(it, buffer)
    [] T = "octets" -> as_octets(it, buffer)

\* field::is_null: the short at the null offset, converted to bool
is_null(it, buffer) == SubSeq(buffer, it.nullOffset + 1, it.nullOffset + 2) # LE(0, 2)

\* ------------------------------------------------------------ transaction
\* the most transactions started, and the most transaction objects made (by
\* connection::start and by the move constructor)
MaxTra == 2
MaxTObjs == 2

TraIds == 1..MaxTra
TObjs == 1..MaxTObjs

NoTra == [alive |-> "none", m_tra |-> NULLPTR]
NoEngTra == [state |-> "none", ends |-> 0]
NoCall == [op |-> "none", obj |-> 0, from |-> 0, outcome |-> "ok", what |-> "",
           owned |-> NULLPTR, calls |-> <<>>, opts |-> <<>>, tpb |-> <<>>]

TCall(name, o) == [NoCall EXCEPT !.op = name, !.obj = o]

\* -------------------------------------------------------- connection::info
\* the most items asked for in one request
MaxItems == 2

isc_info_end == 1
isc_info_truncated == 2

NoInfo == [op |-> "none", recs |-> <<>>, size |-> 0, reply |-> <<>>, complete |-> FALSE,
           outcome |-> "ok", what |-> "", ret |-> <<>>, pout |-> "ok", calls |-> <<>>]

\* ------------------------------------------------------ prepared statement
\* the handles one call acquires from the engine and gives back to it
NoLedger == [acquired |-> 0, released |-> 0]

NoStmt == [alive |-> FALSE, m_stmt |-> NULLPTR, m_iparams |-> <<>>, released |-> 0]

NoExec == [op |-> "none", given |-> <<>>, pars |-> <<>>, calls |-> <<>>, failed |-> "", outcome |-> "ok",
           handed |-> FALSE, items |-> <<>>, length |-> 0, buffer |-> <<>>,
           overrun |-> FALSE, builder |-> NoLedger, imeta |-> NoLedger]

\* -------------------------------------------------------- result_set objects
\* the most rows a cursor has
MaxRows == 2

\* the cursor opened in a run, and the result_set objects of a run in order
\* of construction (the one the executor returns and the one moved to)
RsIds == {1}
RObjs == {1, 2}

NoRset == [alive |-> "none", m_rs |-> NULLPTR, m_meta |-> NULLPTR, m_buffer |-> NULLPTR]

\* a cursor of the engine with its output metadata, and the row buffer the
\* result_set allocated for it: the rows still to fetch, the rows fetched,
\* the bytes in the buffer (none before the first fetch), and how often each
\* of the three was released
NoEngRs == [st |-> "none", owned |-> FALSE, rows |-> <<>>, sent |-> <<>>, mem |-> <<>>,
            rs_rel |-> 0, meta_rel |-> 0, buf_del |-> 0]

NoField == [m_index |-> 0, m_meta |-> NULLPTR, m_buffer |-> NULLPTR, got_at |-> 0]

NoRCall == [op |-> "none", obj |-> 0, outcome |-> "ok", what |-> "", flag |-> FALSE,
            val |-> NoVal]

\* --------------------------------------------------------- blob transfers
NoXfer == [op |-> "none", pc |-> "idle", pos |-> 0, length |-> 0, seg |-> 1, off |-> 0,
           segs |-> <<>>, result |-> 0, n |-> 0, rc |-> "", outcome |-> "ok"]

\* ------------------------------------------------- statement and result set
\* the most parameters bound to one statement
MaxParams == 2

\* the arguments the caller passes to add(), as object representations
ArgKinds == {"bool", "short", "int", "long", "int64_t", "float", "double", "FB_DEC16",
             "FB_DEC34", "FB_I128", "std::string", "const char*", "char", "date", "time",
             "time_tz", "timestamp", "timestamp_tz", "octets", "blob", "nullptr_t"}

ArgValues(kind) ==
  CASE kind = "bool" -> {<<1>>, <<0>>}
    [] kind = "short" -> {LE(-2, 2), LE(32767, 2)}
    [] kind = "int" -> {LE(-3, 4), LE(100500001, 4)}
    [] kind = "long" -> {LE(-2147483647, 4)}
    [] kind = "int64_t" -> {LE(-1, 8), <<255, 255, 255, 255, 255, 255, 255, 127>>}
    [] kind = "float" -> {<<246, 40, 32, 65>>}
    [] kind = "double" -> {<<59, 223, 79, 141, 151, 110, 18, 64>>}
    [] kind = "FB_DEC16" -> {<<1, 2, 3, 4, 5, 6, 7, 130>>}
    [] kind = "FB_DEC34" -> {<<1, 2, 3, 4, 5, 6, 7, 8, 9, 10, 11, 12, 13, 14, 15, 131>>}
    [] kind = "FB_I128" -> {<<16, 15, 14, 13, 12, 11, 10, 9, 8, 7, 6, 5, 4, 3, 2, 129>>}
    [] kind = "std::string" -> {<<>>, <<97, 98>>}
    [] kind = "const char*" -> {<<99, 100, 101>>}
    [] kind = "char" -> {<<102>>}
    [] kind = "date" -> {<<11, 12, 13, 14>>}
    [] kind = "time" -> {<<21, 22, 23, 24>>}
    [] kind = "time_tz" -> {<<21, 22, 23, 24, 31, 32, 0, 0>>}
    [] kind = "timestamp" -> {<<11, 12, 13, 14, 21, 22, 23, 24>>}
    [] kind = "timestamp_tz" -> {<<11, 12, 13, 14, 21, 22, 23, 24, 31, 32, 0, 0>>}
    [] kind = "octets" -> {<<80, 0, 73>>}
    [] kind = "blob" -> {<<1, 0, 0, 0, 7, 0, 0, 0>>}
    [] kind = "nullptr_t" -> {<<>>}

\* the accessor a caller reads an echoed argument back with
EchoAccessors(kind) ==
  CASE kind \in {"std::string", "const char*", "char"} -> {"std::string"}
    [] kind = "blob" -> {"ISC_QUAD"}
    [] kind = "nullptr_t" -> {"short"}
    [] OTHER -> {kind}

\* the columns the engine's catalogue offers a query without parameters, and
\* the data each can hold
Col(type, length, scale) == [type |-> type, length |-> length, scale |-> scale]

Columns ==
  {Col(t, 0, 0) : t \in FixedTypes}
    \cup {Col("SQL_SHORT", 0, -2), Col("SQL_LONG", 0, -3), Col("SQL_INT64", 0, -3),
          Col("SQL_DOUBLE", 0, -2), Col("SQL_TEXT", 10, 0), Col("SQL_VARYING", 4, 0)}

ColValues(col) ==
  CASE col.type = "SQL_BOOLEAN" -> {<<1>>, <<0>>}
    [] col.type = "SQL_SHORT" -> {LE(-2, 2), LE(1050, 2)}
    [] col.type = "SQL_LONG" -> {LE(-3, 4), LE(100500001, 4)}
    [] col.type = "SQL_INT64" -> {LE(-1500, 8), LE(100500001, 8)}
    [] col.type = "SQL_FLOAT" -> {<<246, 40, 32, 65>>}
    [] col.type = "SQL_TEXT" -> {<<115, 111, 109, 101, 32, 116, 101, 120, 116, 32>>}
    [] col.type = "SQL_VARYING" -> {LE(2, 2) \o <<97, 98, 63, 63>>, LE(0, 2) \o <<63, 63, 63, 63>>}
    [] OTHER -> {[k \in 1..EngTypeLength(col.type) |-> 40 + k]}

SqlNull == <<-1>>

\* the row the engine fetches for one column holding v
EngRow(meta, v) ==
  LET it == meta.items[1]
      zero == Fill(0, meta.length)
  IN IF v = SqlNull THEN WriteAt(zero, it.nullOffset, LE(-1, 2))
     ELSE WriteAt(zero, it.offset, v)

NoMsg == [args |-> <<>>, params |-> <<>>, items |-> <<>>, length |-> 0,
          buffer |-> <<>>, overrun |-> FALSE]

NoRs == [open |-> FALSE, src |-> "none", items |-> <<>>, length |-> 0,
         fetched |-> FALSE, buffer |-> <<>>, rows |-> <<>>]

Res(op, T, index, r, flag) ==
  [op |-> op, T |-> T, index |-> index, st |-> r.st, text |-> r.text,
   from |-> r.from, to |-> r.to, val |-> r.val, flag |-> flag]

NoRes == Res("none", "", 0, Returned(NoVal), FALSE)

\* a read of the row buffer before the first fetch filled it
Indeterminate == [st |-> "indeterminate", text |-> "", from |-> "", to |-> "", val |-> NoVal]

OutOfBounds ==
  [st |-> "logic_error", text |-> "Row index out of bounds", from |-> "", to |-> "",
   val |-> NoVal]

\* the state after construction: no blob object, one blob stored by another
\* client, a statement without parameters and no result set
Init ==
  /\ alive = [i \in Objs |-> "none"]
  /\ m_blob = [i \in Objs |-> NULLPTR]
  /\ m_id = [i \in Objs |-> 0]
  /\ eng_blob = [id \in AllIds |->
        IF id = ForeignId
        THEN [segs |-> << Bytes(ForeignBuf, 40000), << <<ForeignBuf, 40000, 5>> >> >>,
              stored |-> TRUE, exists |-> TRUE]
        ELSE NoBlob]
  /\ eng_hnd = [h \in Objs |-> NoHandle]
  /\ put_log = [id \in AllIds |->
        IF id = ForeignId THEN Bytes(ForeignBuf, 40005) ELSE <<>>]
  /\ last = NoOp
  /\ crashed = FALSE
  /\ args = <<>>
  /\ params = <<>>
  /\ imsg = NoMsg
  /\ rs = NoRs
  /\ res = NoRes
  /\ tra = [o \in TObjs |-> NoTra]
  /\ eng_tra = [id \in TraIds |-> NoEngTra]
  /\ tlast = NoCall
  /\ cinfo = NoInfo
  /\ stmt = NoStmt
  /\ sizeof_long = 0
  /\ xlast = NoExec
  /\ rset = [o \in RObjs |-> NoRset]
  /\ eng_rs = [r \in RsIds |-> NoEngRs]
  /\ fld = NoField
  /\ rlast = NoRCall
  /\ xfer = NoXfer

\* statement::add / the variadic arguments of transaction::cursor
add(kind, x) ==
  /\ ~rs.open
  /\ Len(params) < MaxParams
  /\ args' = Append(args, [kind |-> kind, x |-> x])
  /\ params' = Append(params, add_value(kind, x))
  /\ res' = NoRes
  /\ UNCHANGED <<imsg, rs>>
  /\ UNCHANGED <<blobVars, traVars, infoVars, execVars, rowsVars, xferVars>>

clear ==
  /\ ~rs.open
  /\ params # <<>>
  /\ args' = <<>>
  /\ params' = <<>>
  /\ res' = NoRes
  /\ UNCHANGED <<imsg, rs>>
  /\ UNCHANGED <<blobVars, traVars, infoVars, execVars, rowsVars, xferVars>>

\* executor::cursor.  With parameters the engine echoes them: the output
\* columns are the input slots and the one row is the message.
cursor ==
  /\ ~rs.open
  /\ IF params = <<>>
     THEN \E col \in Columns : \E v \in ColValues(col) \cup {SqlNull} :
            LET ometa == EngMetadata(<< Item(col.type, col.length, col.scale, 0) >>)
            IN /\ rs' = [open |-> TRUE, src |-> "table", items |-> ometa.items,
                         length |-> ometa.length, fetched |-> FALSE, buffer |-> <<>>,
                         rows |-> << EngRow(ometa, v) >>]
               /\ imsg' = NoMsg
     ELSE LET msg == make_input(params)
          IN /\ imsg' = [args |-> args, params |-> params, items |-> msg.items,
                         length |-> msg.length, buffer |-> msg.buffer,
                         overrun |-> msg.overrun]
             /\ rs' = [open |-> TRUE, src |-> "echo", items |-> msg.items,
                       length |-> msg.length, fetched |-> FALSE, buffer |-> <<>>,
                       rows |-> << msg.buffer >>]
  /\ res' = NoRes
  /\ UNCHANGED <<args, params>>
  /\ UNCHANGED <<blobVars, traVars, infoVars, execVars, rowsVars, xferVars>>

\* result_set::next
next ==
  /\ rs.open
  /\ IF rs.rows # <<>>
     THEN /\ rs' = [rs EXCEPT !.buffer = Head(rs.rows), !.rows = Tail(rs.rows),
                              !.fetched = TRUE]
          /\ res' = Res("next", "", 0, Returned(NoVal), TRUE)
     ELSE /\ rs' = rs
          /\ res' = Res("next", "", 0, Returned(NoVal), FALSE)
  /\ UNCHANGED <<args, params, imsg>>
  /\ UNCHANGED <<blobVars, traVars, infoVars, execVars, rowsVars, xferVars>>

\* the accessors a caller uses on column index of the open result set
CallerAccessors(index) ==
  IF rs.src = "echo"
  THEN EchoAccessors(imsg.args[index + 1].kind)
  ELSE Accessors

rs_get_unchecked(index, m_count) == Returned(NoVal)

\* result_set::get: the bounds test made before the field is constructed
rs_get(index, m_count) == IF index >= m_count THEN OutOfBounds ELSE Returned(NoVal)

\* result_set::get(index) with index >= ncols()
get_out_of_bounds(index) ==
  /\ rs.open
  /\ index >= Len(rs.items)
  /\ res' = Res("get", "", index, rs_get(index, Len(rs.items)), FALSE)
  /\ UNCHANGED <<args, params, imsg, rs>>
  /\ UNCHANGED <<blobVars, traVars, infoVars, execVars, rowsVars, xferVars>>

\* result_set::get(index).as<T>()
get_as(index, T) ==
  /\ rs.open
  /\ index < Len(rs.items)
  /\ rs_get(index, Len(rs.items)).st = "ok"
  /\ T \in CallerAccessors(index)
  /\ res' = IF ~rs.fetched THEN Res("as", T, index, Indeterminate, FALSE)
            ELSE Res("as", T, index, as(T, rs.items[index + 1], rs.buffer), FALSE)
  /\ UNCHANGED <<args, params, imsg, rs>>
  /\ UNCHANGED <<blobVars, traVars, infoVars, execVars, rowsVars, xferVars>>

\* result_set::get(index).is_null()
get_is_null(index) ==
  /\ rs.open
  /\ index < Len(rs.items)
  /\ rs_get(index, Len(rs.items)).st = "ok"
  /\ res' = IF ~rs.fetched THEN Res("is_null", "", index, Indeterminate, FALSE)
            ELSE Res("is_null", "", index, Returned(NoVal),
                     is_null(rs.items[index + 1], rs.buffer))
  /\ UNCHANGED <<args, params, imsg, rs>>
  /\ UNCHANGED <<blobVars, traVars, infoVars, execVars, rowsVars, xferVars>>

\* result_set::close
rs_close ==
  /\ rs.open
  /\ rs' = NoRs
  /\ imsg' = NoMsg
  /\ res' = NoRes
  /\ UNCHANGED <<args, params>>
  /\ UNCHANGED <<blobVars, traVars, infoVars, execVars, rowsVars, xferVars>>

NextField ==
  \/ \E kind \in ArgKinds : \E x \in ArgValues(kind) : add(kind, x)
  \/ clear
  \/ cursor
  \/ next
  \/ \E index \in 0..MaxParams : get_out_of_bounds(index)
  \/ \E index \in 0..MaxParams : \E T \in Accessors : get_as(index, T)
  \/ \E index \in 0..MaxParams : get_is_null(index)
  \/ rs_close

SpecBlob == Init /\ [][NextBlob]_vars

SpecField == Init /\ [][NextField]_vars

\* ================================================================ claims
IsPut == last.op \in PutVariants /\ last.outcome = "ok"
IsGetAll == last.op \in {"get", "get_string"} /\ last.outcome = "ok"
IsGetN == last.op = "get_n" /\ last.outcome = "ok"

CallData == [k \in 1..Len(last.calls) |-> last.calls[k].data]

\* the offset of the k-th call: the lengths of the calls before it
CallOffset(k) == BLen(CatAll(SubSeq(CallData, 1, k - 1)))

\* C1: a put (or put_string) of length bytes that returns has issued one
\* putSegment with all the bytes when length <= MAX_SEGMENT_SIZE, and otherwise
\* ceil(length / MAX_SEGMENT_SIZE) putSegment calls, each of at most
\* MAX_SEGMENT_SIZE bytes, at increasing offsets, which put end to end are the
\* input bytes
C1_PutSegments ==
  IsPut =>
    LET n == Len(last.calls)
    IN /\ \A k \in 1..n :
            /\ last.calls[k].fn = "putSegment"
            /\ last.calls[k].len <= MAX_SEGMENT_SIZE
            /\ BLen(last.calls[k].data) = last.calls[k].len
            /\ last.calls[k].data = Slice(last.inp, CallOffset(k), last.calls[k].len)
       /\ last.len <= MAX_SEGMENT_SIZE => n = 1 /\ last.calls[1].len = last.len
       /\ last.len > MAX_SEGMENT_SIZE =>
            n = (last.len + MAX_SEGMENT_SIZE - 1) \div MAX_SEGMENT_SIZE
       /\ CatAll(CallData) = last.inp

C1_Witness ==
  /\ IsPut /\ last.op = "put_string" /\ last.len = 70000
  /\ Len(last.calls) = 3 /\ last.calls[3].len = 4464

\* C2: what get() returns from a blob opened for reading and not read before
\* is the bytes that were put into the blob of that id, in their order; a put
\* of 70000 bytes issues at least 3 segment transfers
C2_RoundTrip ==
  /\ (IsGetAll /\ last.from = <<1, 0>>) => last.ret = put_log[m_id[last.obj]]
  /\ (IsPut /\ last.len = 70000) => Len(last.calls) >= 3

C2_Witness ==
  /\ IsGetAll /\ last.from = <<1, 0>>
  /\ m_id[last.obj] \in Ids
  /\ last.ret = Bytes(1, 70000)

\* C3 as stated: get() stops on the first transfer whose status is complete
C3_StopsOnFirstComplete ==
  IsGetAll =>
    LET n == Len(last.calls)
    IN /\ last.calls[n].rc = "RESULT_OK"
       /\ \A k \in 1..(n - 1) : last.calls[k].rc # "RESULT_OK"

\* C3 (amended): get() requests MAX_SEGMENT_SIZE bytes in every transfer,
\* appends the segment of every transfer whose status is complete (RESULT_OK)
\* or partial (RESULT_SEGMENT), stops on the first transfer whose status is
\* neither of the two, and returns the segments appended so far, in order
C3_StopsOnEndOfData ==
  IsGetAll =>
    LET n == Len(last.calls)
    IN /\ n >= 1
       /\ \A k \in 1..n : last.calls[k].fn = "getSegment"
                          /\ last.calls[k].len = MAX_SEGMENT_SIZE
       /\ \A k \in 1..(n - 1) : last.calls[k].rc \in {"RESULT_OK", "RESULT_SEGMENT"}
       /\ last.calls[n].rc \notin {"RESULT_OK", "RESULT_SEGMENT"}
       /\ last.ret = CatAll(SubSeq(CallData, 1, n - 1))

C3_Witness ==
  /\ IsGetAll
  /\ Len(last.calls) = 4
  /\ last.calls[1].rc = "RESULT_SEGMENT"
  /\ last.calls[2].rc = "RESULT_OK"
  /\ last.calls[3].rc = "RESULT_OK"
  /\ last.ret = Bytes(ForeignBuf, 40005)

\* C4: get(n) issues one getSegment asking for n bytes and returns the bytes
\* the engine returned, no more and no fewer, whatever the status
C4_GetN ==
  IsGetN =>
    /\ Len(last.calls) = 1
    /\ last.calls[1].fn = "getSegment"
    /\ last.calls[1].len = last.len
    /\ last.ret = last.calls[1].data
    /\ BLen(last.ret) <= last.len

C4_Witness ==
  /\ IsGetN /\ last.len = 20000
  /\ last.calls[1].rc = "RESULT_OK"
  /\ BLen(last.ret) = 12768

\* C5 as stated: an operation on a blob that was closed is reported to the
\* caller as a ContractError (logic_error) and makes no engine call
C5_ClosedIsContractError ==
  last.null => (last.outcome = "logic_error" /\ last.calls = <<>>)

\* ------------------------------------------------ failures of engine calls
\* a Firebird::FbException thrown by a call made through ThrowStatusWrapper
FbException == [st |-> "FbException", text |-> "", from |-> "", to |-> "", val |-> NoVal]

\* what leaves a try block closed by CATCH_SQL: sql_error with the text of
\* formatStatus in place of the engine's exception
CATCH_SQL(r) ==
  IF r.st = "FbException"
  THEN [st |-> "sql_error", text |-> "formatStatus", from |-> "", to |-> "", val |-> NoVal]
  ELSE r

\* the engine call an accessor makes besides reading the buffer
as_engine_call(T, type) ==
  CASE T \in {"double", "float"} /\ type \in {"SQL_SHORT", "SQL_LONG", "SQL_INT64"} -> "getScale"
    [] T = "std::string" /\ type = "SQL_TEXT" -> "getLength"
    [] T = "octets" /\ type # "SQL_VARYING" -> "getLength"
    [] OTHER -> "none"

\* executor::cursor when make_input or openCursor or the metadata call fails
cursor_fails ==
  /\ ~rs.open
  /\ res' = Res("cursor", "", 0, CATCH_SQL(FbException), FALSE)
  /\ UNCHANGED <<args, params, imsg, rs>>
  /\ UNCHANGED <<blobVars, traVars, infoVars, execVars, rowsVars, xferVars>>

\* result_set::next when fetchNext fails
next_fails ==
  /\ rs.open
  /\ res' = Res("next", "", 0, CATCH_SQL(FbException), FALSE)
  /\ UNCHANGED <<args, params, imsg, rs>>
  /\ UNCHANGED <<blobVars, traVars, infoVars, execVars, rowsVars, xferVars>>

\* result_set::get when getOffset or getType fails in the constructor of field
get_fails(index) ==
  /\ rs.open
  /\ index < Len(rs.items)
  /\ res' = Res("get", "", index, FbException, FALSE)
  /\ UNCHANGED <<args, params, imsg, rs>>
  /\ UNCHANGED <<blobVars, traVars, infoVars, execVars, rowsVars, xferVars>>

\* field::as<T> when its getScale or getLength fails
as_fails(index, T) ==
  /\ rs.open /\ rs.fetched
  /\ index < Len(rs.items)
  /\ T \in CallerAccessors(index)
  /\ as_engine_call(T, rs.items[index + 1].type) # "none"
  /\ res' = Res("as", T, index, FbException, FALSE)
  /\ UNCHANGED <<args, params, imsg, rs>>
  /\ UNCHANGED <<blobVars, traVars, infoVars, execVars, rowsVars, xferVars>>

\* field::is_null when getNullOffset fails
is_null_fails(index) ==
  /\ rs.open
  /\ index < Len(rs.items)
  /\ res' = Res("is_null", "", index, FbException, FALSE)
  /\ UNCHANGED <<args, params, imsg, rs>>
  /\ UNCHANGED <<blobVars, traVars, infoVars, execVars, rowsVars, xferVars>>

\* result_set::close when IResultSet::close fails: the buffer and the
\* metadata are gone and m_rs is null before the call is made
rs_close_fails ==
  /\ rs.open
  /\ rs' = NoRs
  /\ imsg' = NoMsg
  /\ res' = Res("close", "", 0, CATCH_SQL(FbException), FALSE)
  /\ UNCHANGED <<args, params>>
  /\ UNCHANGED <<blobVars, traVars, infoVars, execVars, rowsVars, xferVars>>

NextFieldFault ==
  \/ NextField
  \/ cursor_fails
  \/ next_fails
  \/ \E index \in 0..MaxParams : get_fails(index)
  \/ \E index \in 0..MaxParams : \E T \in Accessors : as_fails(index, T)
  \/ \E index \in 0..MaxParams : is_null_fails(index)
  \/ rs_close_fails

SpecFieldFault == Init /\ [][NextFieldFault]_vars

\* ------------------------------------------------- encoder / decoder claims
\* the result set echoes the message of the parameters bound, and a row of it
\* has been fetched
Echoed == rs.open /\ rs.src = "echo" /\ rs.fetched
Decoded == res.op = "as" /\ rs.open /\ rs.fetched

\* the column the last accessor was called on, and the bytes of its slot
ResItem == rs.items[res.index + 1]
SlotBytes(it, buffer, n) == SubSeq(buffer, it.offset + 1, it.offset + n)
Indicator(it, buffer) == SubSeq(buffer, it.nullOffset + 1, it.nullOffset + 2)

ScalarKinds == {"bool", "short", "int", "long", "int64_t", "float", "double",
                "FB_DEC16", "FB_DEC34", "FB_I128", "blob"}

ScalarWire(kind) ==
  CASE kind = "bool" -> <<"SQL_BOOLEAN", 1>>
    [] kind = "short" -> <<"SQL_SHORT", 2>>
    [] kind \in {"int", "long"} -> <<"SQL_LONG", 4>>
    [] kind = "int64_t" -> <<"SQL_INT64", 8>>
    [] kind = "float" -> <<"SQL_FLOAT", 4>>
    [] kind = "double" -> <<"SQL_DOUBLE", 8>>
    [] kind = "FB_DEC16" -> <<"SQL_DEC16", 8>>
    [] kind = "FB_DEC34" -> <<"SQL_DEC34", 16>>
    [] kind = "FB_I128" -> <<"SQL_INT128", 16>>
    [] kind = "blob" -> <<"SQL_BLOB", 8>>

RECURSIVE Digits(_)
Digits(n) == IF n < 10 THEN << 48 + n >> ELSE Digits(n \div 10) \o << 48 + (n % 10) >>

\* the digits of r with a decimal point before the last -s of them
DecimalText(r, s) ==
  LET d == Digits(IF r < 0 THEN -r ELSE r)
      cut == Len(d) + s
  IN (IF r < 0 THEN << 45 >> ELSE <<>>)
       \o SubSeq(d, 1, cut) \o << 46 >> \o SubSeq(d, cut + 1, Len(d))

IntegerTypes == {"SQL_SHORT", "SQL_LONG", "SQL_INT64"}

\* the stored integer of an integer column
Raw(it, buffer) == SNum(SlotBytes(it, buffer, it.length))

\* C8 as stated: as<std::string>() on an integer column with a negative scale
\* s returns the digits of the raw value with a decimal point -s digits from
\* the right; raw 100500001 with scale -3 gives "100500.001"
C8_ScaledText ==
  (Decoded /\ res.T = "std::string" /\ ResItem.type \in IntegerTypes /\ ResItem.scale < 0) =>
     /\ res.st = "ok"
     /\ res.val.b = DecimalText(Raw(ResItem, rs.buffer), ResItem.scale)

C10_InvalidConversion ==
  Decoded =>
     /\ res.st # "ok" =>
          /\ res.st = "logic_error"
          /\ res.text = "Invalid conversion from type "
          /\ res.from = type_name(ResItem.type)
          /\ res.to # ""
     /\ (res.T = "octets" /\ ResItem.type \notin {"SQL_TEXT", "SQL_VARYING"}) =>
          res.st # "ok"

\* C11: on an open result set, get(index) with index >= ncols() raises
\* logic_error "Row index out of bounds" and leaves the row buffer and the
\* metadata as they were; with index < ncols() it returns the field, whose
\* accessors then run
C11_IndexBounds ==
  [][/\ res'.op = "get" =>
          /\ res'.index >= Len(rs.items)
          /\ res'.st = "logic_error"
          /\ res'.text = "Row index out of bounds"
          /\ rs' = rs
     /\ res'.op \in {"as", "is_null"} =>
          /\ res'.index < Len(rs.items)
          /\ res'.text # "Row index out of bounds"
          /\ rs' = rs]_vars

C11_Witness ==
  /\ rs.open /\ rs.fetched /\ Len(rs.items) = 2
  /\ res.op = "get" /\ res.index = 2 /\ res.st = "logic_error"

\* C12: as<std::string>() on a SQL_TEXT column returns the bytes of the whole
\* declared length of the slot, trailing fill included ("some text" in a
\* 10-byte slot comes back as 10 bytes, the last one the fill); on a
\* SQL_VARYING column it returns as many of the bytes after the 2-byte count
\* as the count says
C12_TextDecode ==
  (Decoded /\ res.T = "std::string") =>
     /\ ResItem.type = "SQL_TEXT" =>
          /\ res.st = "ok"
          /\ Len(res.val.b) = ResItem.length
          /\ \A k \in 1..ResItem.length : res.val.b[k] = rs.buffer[ResItem.offset + k]
     /\ ResItem.type = "SQL_VARYING" =>
          LET count == rs.buffer[ResItem.offset + 1] + 256 * rs.buffer[ResItem.offset + 2]
          IN /\ res.st = "ok"
             /\ Len(res.val.b) = count
             /\ \A k \in 1..count : res.val.b[k] = rs.buffer[ResItem.offset + 2 + k]

C12_Witness ==
  /\ Decoded /\ res.T = "std::string" /\ rs.src = "table"
  /\ ResItem.type = "SQL_TEXT" /\ ResItem.length = 10
  /\ res.val.b = <<115, 111, 109, 101, 32, 116, 101, 120, 116, 32>>

\* C13 as stated: on every column, whatever its wire type and the bytes of
\* its row, as<octets>() returns a value exactly when as<std::string>() does,
\* and then the same bytes
C13_OctetsMirrorsText ==
  (Decoded /\ res.T = "octets") =>
     LET text == as_string(ResItem, rs.buffer)
     IN /\ res.st = "ok" <=> text.st = "ok"
        /\ res.st = "ok" => res.val.b = text.val.b

\* the width in bytes of the stored boolean and integer kinds and of the
\* integer types a caller can request
StoredWidth(type) ==
  CASE type = "SQL_BOOLEAN" -> 1
    [] type = "SQL_SHORT" -> 2
    [] type = "SQL_LONG" -> 4
    [] type = "SQL_INT64" -> 8
    [] OTHER -> 0

TargetWidth(T) ==
  CASE T = "short" -> 2
    [] T \in {"int", "long"} -> 4
    [] T = "int64_t" -> 8
    [] T = "FB_I128" -> 16
    [] OTHER -> 0

\* the two's complement representation, in w bytes, of the value stored in
\* an integer slot (a boolean slot holds 0 or 1)
Widened(it, buffer, w) ==
  LET slot == SlotBytes(it, buffer, StoredWidth(it.type))
  IN slot \o Fill(IF it.type # "SQL_BOOLEAN" /\ slot[Len(slot)] >= 128 THEN 255 ELSE 0,
                  w - Len(slot))

\* C14 as stated: a stored boolean or integer kind decodes as every wider
\* integer type up to INT128 with the value it holds, negative values
\* included and whatever the scale, and decodes as double and as float
C14_Widening ==
  (Decoded /\ StoredWidth(ResItem.type) > 0) =>
     /\ TargetWidth(res.T) > StoredWidth(ResItem.type) =>
          /\ res.st = "ok"
          /\ res.val.b = Widened(ResItem, rs.buffer, TargetWidth(res.T))
     /\ res.T \in {"double", "float"} => res.st = "ok"

\* C15 as stated: no call of the encoder, the decoder or the result set lets
\* an exception of the engine through; each engine failure has become a
\* sql_error with the formatted status text
C15_EngineErrorsWrapped == res.st # "FbException"

\* --------------------------------------------------- transaction: actions
\* isolation_level's two anonymous enums
il_concurrency == 0
il_consistency == 1
il_read_committed == 2
rc_no_record_version == 0
rc_record_version == 1
rc_consistency == 2

\* the option values a caller can pass: the fields are public, so any int is
\* possible, the named constructors give the recognised ones
isolation_level == [mode : {il_concurrency, il_consistency, il_read_committed, 3},
                    rc : {-1, rc_no_record_version, rc_record_version, rc_consistency, 3}]
lock_resolution == [mode : BOOLEAN, timeout : {-1, 0, 5}]
data_access == [mode : BOOLEAN]

\* IXpbBuilder: the block is the sequence of clumplets inserted
insertTag(tpb, tag) == Append(tpb, [tag |-> tag, int |-> <<>>])
insertInt(tpb, tag, value) == Append(tpb, [tag |-> tag, int |-> <<value>>])

Built(tpb) == [throws |-> "", what |-> "", tpb |-> tpb]
Thrown(type, what) == [throws |-> type, what |-> what, tpb |-> <<>>]

\* the first switch of the constructor: the isolation level
tpb_isolation(il) ==
  CASE il.mode = il_concurrency -> Built(insertTag(<<>>, "isc_tpb_concurrency"))
    [] il.mode = il_consistency -> Built(insertTag(<<>>, "isc_tpb_consistency"))
    [] il.mode = il_read_committed ->
         LET t == insertTag(<<>>, "isc_tpb_read_committed")
         IN CASE il.rc = rc_no_record_version -> Built(insertTag(t, "isc_tpb_no_rec_version"))
              [] il.rc = rc_record_version -> Built(insertTag(t, "isc_tpb_rec_version"))
              [] il.rc = rc_consistency -> Built(insertTag(t, "isc_tpb_read_consistency"))
              [] OTHER -> Thrown("logic_error", "Wrong read-committed transaction variant")
    [] OTHER -> Thrown("logic_error", "Wrong isolation level")

tpb_lock_nowait(tpb, lr) == insertTag(tpb, "isc_tpb_nowait")

tpb_lock(tpb, lr) ==
  IF lr.mode
    THEN LET t == insertTag(tpb, "isc_tpb_wait")
         IN IF lr.timeout > 0 THEN insertInt(t, "isc_tpb_lock_timeout", lr.timeout) ELSE t
    ELSE insertTag(tpb, "isc_tpb_nowait")

tpb_access(tpb, da) ==
  IF da.mode THEN insertTag(tpb, "isc_tpb_write") ELSE insertTag(tpb, "isc_tpb_read")

\* the parameter block the constructor hands to startTransaction, or the
\* exception it throws before that
make_tpb(il, lr, da) ==
  LET i == tpb_isolation(il)
  IN IF i.throws # "" THEN i ELSE Built(tpb_access(tpb_lock(i.tpb, lr), da))

\* one call of the engine on a transaction: the function, the transaction and
\* the state the transaction was in when the call was made
ECall(fn, id) ==
  [fn |-> fn, tra |-> id, before |-> IF id = NULLPTR THEN "none" ELSE eng_tra[id].state]

\* IAttachment::startTransaction
startTransaction(id) == [eng_tra EXCEPT ![id] = [state |-> "active", ends |-> 0]]
\* ITransaction::commit and ITransaction::rollback
eng_end(id, state) == [eng_tra EXCEPT ![id] = [state |-> state, ends |-> @.ends + 1]]

\* the process is still running
Running == tlast.outcome \notin {"crash", "terminate"}

FreeTra == {id \in TraIds : eng_tra[id].state = "none"}
FreeTObj == {o \in TObjs : tra[o].alive = "none"}
Least(S) == CHOOSE x \in S : \A y \in S : x <= y

\* what connection::start does once the parameter block is there
started(name, opts, tpb, fail) ==
  LET id == Least(FreeTra)
      o == Least(FreeTObj)
  IN IF fail
       THEN /\ tlast' = [TCall(name, 0) EXCEPT !.outcome = "sql_error", !.opts = opts, !.tpb = tpb,
                                               !.calls = <<ECall("startTransaction", NULLPTR)>>]
            /\ UNCHANGED <<tra, eng_tra>>
       ELSE /\ eng_tra' = startTransaction(id)
            /\ tra' = [tra EXCEPT ![o] = [alive |-> "alive", m_tra |-> id]]
            /\ tlast' = [TCall(name, o) EXCEPT !.owned = id, !.opts = opts, !.tpb = tpb,
                                               !.calls = <<ECall("startTransaction", NULLPTR)>>]

\* connection::start(): a transaction with the default options
tra_start(fail) ==
  /\ Running /\ FreeTra # {} /\ FreeTObj # {}
  /\ started("start", <<>>, <<>>, fail)
  /\ UNCHANGED <<blobVars, fieldVars, infoVars, execVars, rowsVars, xferVars>>

\* connection::start(il, lr, da)
tra_start_with(il, lr, da, fail) ==
  /\ Running /\ FreeTra # {} /\ FreeTObj # {}
  /\ LET r == make_tpb(il, lr, da)
     IN IF r.throws # ""
          THEN /\ tlast' = [TCall("start_with", 0) EXCEPT !.outcome = r.throws, !.what = r.what,
                                                          !.opts = <<il, lr, da>>]
               /\ UNCHANGED <<tra, eng_tra>>
          ELSE started("start_with", <<il, lr, da>>, r.tpb, fail)
  /\ UNCHANGED <<blobVars, fieldVars, infoVars, execVars, rowsVars, xferVars>>

\* transaction(transaction&& rhs)
tra_move(rhs) ==
  /\ Running /\ tra[rhs].alive = "alive" /\ FreeTObj # {}
  /\ LET o == Least(FreeTObj)
     IN /\ tra' = [tra EXCEPT ![o] = [alive |-> "alive", m_tra |-> tra[rhs].m_tra],
                              ![rhs].m_tra = NULLPTR]
        /\ tlast' = [TCall("move", o) EXCEPT !.owned = tra[rhs].m_tra, !.from = rhs]
  /\ UNCHANGED eng_tra
  /\ UNCHANGED <<blobVars, fieldVars, infoVars, execVars, rowsVars, xferVars>>

\* commit() and rollback(): the engine call, then m_tra = nullptr.  With a null
\* m_tra the call is a null dereference; a failing call throws FbException
\* past the assignment.
tra_end(name, state, o, fail) ==
  LET id == tra[o].m_tra
  IN IF id = NULLPTR
       THEN /\ \E out \in {"crash", "unpredictable"} :
                 tlast' = [TCall(name, o) EXCEPT !.outcome = out]
            /\ UNCHANGED <<tra, eng_tra>>
       ELSE IF fail
       THEN /\ tlast' = [TCall(name, o) EXCEPT !.outcome = "FbException", !.owned = id,
                                               !.calls = <<ECall(name, id)>>]
            /\ UNCHANGED <<tra, eng_tra>>
       ELSE /\ eng_tra' = eng_end(id, state)
            /\ tra' = [tra EXCEPT ![o].m_tra = NULLPTR]
            /\ tlast' = [TCall(name, o) EXCEPT !.owned = id, !.calls = <<ECall(name, id)>>]

commit(o, fail) ==
  /\ Running /\ tra[o].alive = "alive"
  /\ tra_end("commit", "committed", o, fail)
  /\ UNCHANGED <<blobVars, fieldVars, infoVars, execVars, rowsVars, xferVars>>

rollback(o, fail) ==
  /\ Running /\ tra[o].alive = "alive"
  /\ tra_end("rollback", "rolled_back", o, fail)
  /\ UNCHANGED <<blobVars, fieldVars, infoVars, execVars, rowsVars, xferVars>>

\* the test ~transaction makes before it calls the engine
dtor_never(m_tra) == FALSE

dtor_rolls_back(m_tra) == m_tra # NULLPTR

\* ~transaction(): a failing rollback throws out of the destructor, which is
\* noexcept, so the process is terminated
tra_destroy(o, fail) ==
  /\ Running /\ tra[o].alive = "alive"
  /\ LET id == tra[o].m_tra
     IN IF ~dtor_rolls_back(id)
          THEN /\ tra' = [tra EXCEPT ![o].alive = "destroyed"]
               /\ tlast' = [TCall("destroy", o) EXCEPT !.owned = id]
               /\ UNCHANGED eng_tra
          ELSE IF fail
          THEN /\ tlast' = [TCall("destroy", o) EXCEPT !.outcome = "terminate", !.owned = id,
                                                       !.calls = <<ECall("rollback", id)>>]
               /\ UNCHANGED <<tra, eng_tra>>
          ELSE /\ eng_tra' = eng_end(id, "rolled_back")
               /\ tra' = [tra EXCEPT ![o].alive = "destroyed"]
               /\ tlast' = [TCall("destroy", o) EXCEPT !.owned = id,
                                                       !.calls = <<ECall("rollback", id)>>]
  /\ UNCHANGED <<blobVars, fieldVars, infoVars, execVars, rowsVars, xferVars>>

NextTra ==
  \/ \E fail \in BOOLEAN : tra_start(fail)
  \/ \E il \in isolation_level, lr \in lock_resolution, da \in data_access, fail \in BOOLEAN :
       tra_start_with(il, lr, da, fail)
  \/ \E o \in TObjs : tra_move(o)
  \/ \E o \in TObjs, fail \in BOOLEAN : commit(o, fail)
  \/ \E o \in TObjs, fail \in BOOLEAN : rollback(o, fail)
  \/ \E o \in TObjs, fail \in BOOLEAN : tra_destroy(o, fail)

SpecTra == Init /\ [][NextTra]_vars

\* ----------------------------------------------------- blob as a parameter
\* the ISC_QUAD the engine uses for blob id: a temporary id for a blob created
\* in this transaction, a relation's blob id for a stored one
EngQuad(id) ==
  IF id = ForeignId THEN LE(128, 4) \o LE(1, 4) ELSE LE(0, 4) \o LE(id, 4)

blob_id_of_handle(i) == EngQuad(m_blob[i])

\* blob::id() of object i
blob_id(i) == EngQuad(m_id[i])

\* transaction::execute(sql, blob): params.add(blob), then executor::execute
\* builds the message with make_input and hands it to the engine
execute_blob(i) ==
  /\ ~crashed /\ alive[i] = "alive"
  /\ last' = [Op("execute", i) EXCEPT !.msg = make_input(<< add_value("blob", blob_id(i)) >>)]
  /\ UNCHANGED <<alive, m_blob, m_id, eng_blob, eng_hnd, put_log, crashed>>
  /\ UNCHANGED <<fieldVars, traVars, infoVars, execVars, rowsVars, xferVars>>

\* the life of blob objects with failing createBlob, openBlob and close
NextBlobLife ==
  \/ \E fail \in BOOLEAN : create_blob(fail)
  \/ \E id \in AllIds, fail \in BOOLEAN : open_blob(id, fail)
  \/ \E i \in Objs, fail \in BOOLEAN : close(i, fail)
  \/ \E i \in Objs, item \in InfoItems, fail \in NoFault : info(i, item, fail)
  \/ \E i \in Objs, length \in ReadSizes, fail \in NoFault : get(i, length, fail)
  \/ \E i \in Objs, name \in {"get", "get_string"}, failAt \in NoFaultAt :
        get_whole(i, name, failAt)
  \/ \E i \in Objs, variant \in PutVariants, length \in Lengths, failAt \in NoFaultAt :
        put_any(i, variant, length, failAt)
  \/ \E i \in Objs : destroy(i)
  \/ \E i \in Objs : execute_blob(i)

SpecBlobLife == Init /\ [][NextBlobLife]_vars

\* ---------------------------------------------- connection::info: actions
\* the items of a request and what the engine has to say about each:
\* isc_info_page_size (14) and isc_info_ods_version (32) are numbers of 4
\* bytes, isc_info_db_read_only (63) is one byte
InfoCodes == {14, 32, 63}
EngInfoPayloads(code) ==
  CASE code = 14 -> {LE(4096, 4), LE(8192, 4)}
    [] code = 32 -> {LE(13, 4)}
    [] code = 63 -> {<<0>>, <<1>>}

InfoRecs == UNION {[code : {c}, payload : EngInfoPayloads(c)] : c \in InfoCodes}
BufferSizes == {4, 8, 16}

\* one record of the reply: item code, length in 2 bytes, payload
InfoRecord(r) == <<r.code>> \o LE(Len(r.payload), 2) \o r.payload

\* IAttachment::getInfo: the records in the order asked for, then the end
\* marker; a record that does not fit together with a closing marker is
\* replaced by the truncated marker and the reply ends there.  The rest of
\* the caller's buffer is left as it was.
RECURSIVE EngDatabaseInfo(_, _, _, _)
EngDatabaseInfo(recs, k, buffer, pos) ==
  IF k > Len(recs)
    THEN [buffer |-> WriteAt(buffer, pos, <<isc_info_end>>), complete |-> TRUE]
    ELSE LET r == InfoRecord(recs[k])
         IN IF pos + Len(r) + 1 > Len(buffer)
              THEN [buffer |-> WriteAt(buffer, pos, <<isc_info_truncated>>), complete |-> FALSE]
              ELSE EngDatabaseInfo(recs, k + 1, WriteAt(buffer, pos, r), pos + Len(r))

\* std::find(buffer.cbegin(), buffer.cend(), value): the first position that
\* holds value, Len(buffer) + 1 for cend()
find(buffer, value) ==
  IF \E k \in 1..Len(buffer) : buffer[k] = value
    THEN CHOOSE k \in 1..Len(buffer) :
           buffer[k] = value /\ \A j \in 1..(k - 1) : buffer[j] # value
    ELSE Len(buffer) + 1

\* what connection::info does with the buffer getInfo has filled
info_result(buffer) ==
  IF buffer[1] = isc_info_truncated
    THEN [outcome |-> "logic_error", what |-> "connection::info() - output buffer is truncated",
          ret |-> <<>>]
    ELSE LET it == find(buffer, isc_info_end)
         IN IF it = Len(buffer) + 1
              THEN [outcome |-> "logic_error",
                    what |-> "connection::info() - output buffer is broken", ret |-> <<>>]
              ELSE [outcome |-> "ok", what |-> "", ret |-> SubSeq(buffer, 1, it)]

\* short length = portable_integer(p, 2)
portable_short(lo, hi) ==
  LET raw == lo + 256 * hi IN IF raw >= 32768 THEN raw - 65536 ELSE raw

\* connection::parse_info_buffer from iterator p on (p = Len(buffer) + 1 is
\* cend()).  A read or an iterator step outside the buffer is undefined.
RECURSIVE parse_loop(_, _, _)
parse_loop(buffer, p, calls) ==
  LET n == Len(buffer)
  IN IF p = n + 1 \/ buffer[p] = isc_info_end THEN [calls |-> calls, undefined |-> FALSE]
     ELSE IF p + 2 > n THEN [calls |-> calls, undefined |-> TRUE]
     ELSE LET item == buffer[p]
              length == portable_short(buffer[p + 1], buffer[p + 2])
              q == p + 3
          IN IF q > n THEN [calls |-> calls, undefined |-> TRUE]
             ELSE LET seen == SubSeq(buffer, q, Min(q + length - 1, n))
                      called == Append(calls, [item |-> item, length |-> length,
                                               payload |-> seen])
                  IN IF q + length > n + 1 \/ q + length < 1
                       THEN [calls |-> called, undefined |-> TRUE]
                       ELSE parse_loop(buffer, q + length, called)

\* connection::info(items, buffer_size)
conn_info(recs, buffer_size) ==
  /\ LET e == EngDatabaseInfo(recs, 1, Fill(0, buffer_size), 0)
         r == info_result(e.buffer)
     IN cinfo' = [NoInfo EXCEPT !.op = "info", !.recs = recs, !.size = buffer_size,
                                !.reply = e.buffer, !.complete = e.complete,
                                !.outcome = r.outcome, !.what = r.what, !.ret = r.ret]
  /\ UNCHANGED <<blobVars, fieldVars, traVars, execVars, rowsVars, xferVars>>

\* connection::parse_info_buffer on the buffer info has returned, with a
\* callback that notes its arguments
parse_info_buffer ==
  /\ cinfo.op = "info" /\ cinfo.outcome = "ok"
  /\ LET r == parse_loop(cinfo.ret, 1, <<>>)
     IN \E out \in (IF r.undefined THEN {"crash", "unpredictable"} ELSE {"ok"}) :
          cinfo' = [cinfo EXCEPT !.op = "parse", !.pout = out, !.calls = r.calls]
  /\ UNCHANGED <<blobVars, fieldVars, traVars, execVars, rowsVars, xferVars>>

Seqs(S, n) == UNION {[1..k -> S] : k \in 0..n}

NextInfo ==
  \/ \E recs \in Seqs(InfoRecs, MaxItems), buffer_size \in BufferSizes :
       conn_info(recs, buffer_size)
  \/ parse_info_buffer

SpecInfo == Init /\ [][NextInfo]_vars

\* ------------------------------------------------------ transaction claims
\* the live transaction objects that hold engine transaction id
Owners(id) == {o \in TObjs : tra[o].alive = "alive" /\ tra[o].m_tra = id}

\* C16: a transaction is ended at the engine exactly once.  No engine
\* transaction is ever ended twice and no call is made on one that has ended;
\* while the process runs an active transaction has exactly one live owner and
\* an ended one has none; a destructor that returns on an owner has made the
\* one call rollback on its transaction, which is then rolled back; a
\* successful commit() or rollback() and a move leave the object without a
\* transaction, and the destructor of such an object makes no engine call.
C16_EndedExactlyOnce ==
  /\ \A id \in TraIds :
       /\ eng_tra[id].ends <= 1
       /\ (eng_tra[id].state = "active") => (eng_tra[id].ends = 0 /\ Cardinality(Owners(id)) = 1)
       /\ (eng_tra[id].state \in {"committed", "rolled_back"})
            => (eng_tra[id].ends = 1 /\ Owners(id) = {})
       /\ (eng_tra[id].state = "none") => Owners(id) = {}
  /\ \A k \in 1..Len(tlast.calls) :
       tlast.calls[k].tra # NULLPTR => tlast.calls[k].before = "active"
  /\ (tlast.op = "destroy" /\ tlast.outcome = "ok") =>
       /\ tra[tlast.obj].alive = "destroyed"
       /\ IF tlast.owned # NULLPTR
            THEN /\ tlast.calls = <<[fn |-> "rollback", tra |-> tlast.owned, before |-> "active"]>>
                 /\ eng_tra[tlast.owned].state = "rolled_back"
            ELSE tlast.calls = <<>>
  /\ (tlast.op \in {"commit", "rollback"} /\ tlast.outcome = "ok") =>
       /\ tra[tlast.obj].m_tra = NULLPTR
       /\ eng_tra[tlast.owned].state = (IF tlast.op = "commit" THEN "committed" ELSE "rolled_back")
  /\ (tlast.op = "move") =>
       /\ tra[tlast.from].m_tra = NULLPTR
       /\ tra[tlast.obj].m_tra = tlast.owned
       /\ tlast.calls = <<>>

\* a destructor has just rolled back the transaction its object owned, after
\* another transaction was committed and an object left without a transaction
\* (committed or moved from) was destroyed
C16_Witness ==
  /\ tlast.op = "destroy" /\ tlast.outcome = "ok" /\ tlast.owned # NULLPTR
  /\ eng_tra[tlast.owned].state = "rolled_back"
  /\ \E id \in TraIds : eng_tra[id].state = "committed"
  /\ \E o \in TObjs \ {tlast.obj} : tra[o].alive = "destroyed" /\ tra[o].m_tra = NULLPTR

\* the number of clumplets of a parameter block whose tag is in tags
CountTags(tpb, tags) == Cardinality({k \in 1..Len(tpb) : tpb[k].tag \in tags})

IsolationTags == {"isc_tpb_concurrency", "isc_tpb_consistency", "isc_tpb_read_committed"}
RecVersionTags == {"isc_tpb_no_rec_version", "isc_tpb_rec_version", "isc_tpb_read_consistency"}

\* C19: connection::start(il, lr, da) with a recognised isolation mode (and,
\* for read committed, a recognised variant) calls startTransaction with a
\* block that holds exactly one isolation tag, the one of il.mode, first;
\* directly after it exactly one record-version sub-option, the one of il.rc,
\* if the level is read committed and none otherwise; exactly one of wait and
\* no-wait, as lr.mode says; a lock timeout, of value lr.timeout, exactly when
\* lr.mode is wait and lr.timeout > 0; exactly one of read and write, as
\* da.mode says; and nothing else.  With an unrecognised mode or variant it
\* throws logic_error, makes no engine call and creates no transaction.
C19_ParameterBlock ==
  (tlast.op = "start_with") =>
    LET il == tlast.opts[1]
        lr == tlast.opts[2]
        da == tlast.opts[3]
        t == tlast.tpb
        rc == il.mode = il_read_committed
        timed == lr.mode /\ lr.timeout > 0
    IN IF il.mode \notin {il_concurrency, il_consistency, il_read_committed}
         THEN /\ tlast.outcome = "logic_error" /\ tlast.what = "Wrong isolation level"
              /\ tlast.calls = <<>> /\ tlast.obj = 0 /\ tlast.owned = NULLPTR
         ELSE IF rc /\ il.rc \notin {rc_no_record_version, rc_record_version, rc_consistency}
         THEN /\ tlast.outcome = "logic_error"
              /\ tlast.what = "Wrong read-committed transaction variant"
              /\ tlast.calls = <<>> /\ tlast.obj = 0 /\ tlast.owned = NULLPTR
         ELSE /\ tlast.outcome \in {"ok", "sql_error"}
              /\ Len(tlast.calls) = 1 /\ tlast.calls[1].fn = "startTransaction"
              /\ CountTags(t, IsolationTags) = 1
              /\ t[1].tag = (CASE il.mode = il_concurrency -> "isc_tpb_concurrency"
                               [] il.mode = il_consistency -> "isc_tpb_consistency"
                               [] il.mode = il_read_committed -> "isc_tpb_read_committed")
              /\ CountTags(t, RecVersionTags) = (IF rc THEN 1 ELSE 0)
              /\ rc => t[2].tag = (CASE il.rc = rc_no_record_version -> "isc_tpb_no_rec_version"
                                     [] il.rc = rc_record_version -> "isc_tpb_rec_version"
                                     [] il.rc = rc_consistency -> "isc_tpb_read_consistency")
              /\ CountTags(t, {"isc_tpb_wait", "isc_tpb_nowait"}) = 1
              /\ CountTags(t, {"isc_tpb_wait"}) = (IF lr.mode THEN 1 ELSE 0)
              /\ CountTags(t, {"isc_tpb_lock_timeout"}) = (IF timed THEN 1 ELSE 0)
              /\ \A k \in 1..Len(t) :
                   t[k].int = (IF t[k].tag = "isc_tpb_lock_timeout" THEN <<lr.timeout>> ELSE <<>>)
              /\ CountTags(t, {"isc_tpb_read", "isc_tpb_write"}) = 1
              /\ CountTags(t, {"isc_tpb_write"}) = (IF da.mode THEN 1 ELSE 0)
              /\ Len(t) = 3 + (IF rc THEN 1 ELSE 0) + (IF timed THEN 1 ELSE 0)

\* a read-only read committed transaction with record versions that waits 5
\* seconds for locks has been started
C19_Witness ==
  /\ tlast.op = "start_with" /\ tlast.outcome = "ok" /\ tlast.owned # NULLPTR
  /\ tlast.opts = <<[mode |-> il_read_committed, rc |-> rc_record_version],
                    [mode |-> TRUE, timeout |-> 5], [mode |-> FALSE]>>
  /\ Len(tlast.tpb) = 5

\* ------------------------------------------------------------- blob claims
\* C17: no operation changes the id of a live blob object, and a blob passed
\* to execute as a parameter, closed or not, gives a message of one SQL_BLOB
\* slot of 8 bytes, not null, whose bytes are the id the object has had since
\* its construction.
C17_BlobIdParameter ==
  [][/\ \A i \in Objs : (alive[i] = "alive" /\ alive'[i] = "alive") => m_id'[i] = m_id[i]
     /\ (last'.op = "execute") =>
          LET msg == last'.msg
              it == msg.items[1]
          IN /\ last'.outcome = "ok" /\ ~last'.null /\ ~msg.overrun
             /\ Len(msg.items) = 1 /\ it.type = "SQL_BLOB" /\ it.length = 8
             /\ SubSeq(msg.buffer, it.offset + 1, it.offset + 8) = EngQuad(eng_hnd[last'.obj].id)
             /\ SubSeq(msg.buffer, it.offset + 1, it.offset + 8) = EngQuad(m_id[last'.obj])
             /\ SubSeq(msg.buffer, it.nullOffset + 1, it.nullOffset + 2) = LE(0, 2)]_vars

\* the second blob created was written to, closed and then passed to execute
C17_Witness ==
  /\ last.op = "execute" /\ last.outcome = "ok"
  /\ alive[last.obj] = "alive" /\ m_blob[last.obj] = NULLPTR
  /\ eng_hnd[last.obj].mode = "write" /\ eng_hnd[last.obj].st = "closed"
  /\ m_id[last.obj] = 2 /\ put_log[2] # <<>>
  /\ LET it == last.msg.items[1]
     IN SubSeq(last.msg.buffer, it.offset + 1, it.offset + 8) = <<0, 0, 0, 0, 2, 0, 0, 0>>

\* C20: the handle of a blob object only moves from open to closed.  An
\* object is constructed with a non-null handle; a close() that returns makes
\* the handle null and the engine's handle closed; a close() that throws
\* leaves the handle as it was; nothing but a close() that returns changes the
\* handle of a live object, so a null handle stays null.
C20_OpenToClosed ==
  [][\A i \in Objs :
       /\ (alive[i] = "none" /\ alive'[i] = "alive") =>
            (m_blob'[i] # NULLPTR /\ eng_hnd'[m_blob'[i]].st = "open")
       /\ (alive[i] = "alive" /\ alive'[i] = "alive") =>
            /\ (m_blob[i] = NULLPTR) => (m_blob'[i] = NULLPTR)
            /\ (m_blob'[i] # m_blob[i]) =>
                 /\ last'.op = "close" /\ last'.obj = i /\ last'.outcome = "ok"
                 /\ m_blob'[i] = NULLPTR /\ eng_hnd'[m_blob[i]].st = "closed"
            /\ (last'.op = "close" /\ last'.obj = i /\ m_blob[i] # NULLPTR) =>
                 IF last'.outcome = "ok" THEN m_blob'[i] = NULLPTR
                 ELSE /\ last'.outcome = "sql_error"
                      /\ m_blob'[i] = m_blob[i] /\ eng_hnd'[m_blob[i]].st = "open"]_vars

\* a close() of the second blob has just failed and left it open, while the
\* first blob, closed before, is still closed
C20_Witness ==
  /\ last.op = "close" /\ last.obj = 2 /\ last.outcome = "sql_error"
  /\ alive[2] = "alive" /\ m_blob[2] # NULLPTR /\ eng_hnd[m_blob[2]].st = "open"
  /\ alive[1] = "alive" /\ m_blob[1] = NULLPTR /\ eng_hnd[1].st = "closed"

\* ----------------------------------------------------- connection claims
\* C18: a request whose reply starts with the truncated marker raises
\* logic_error; a request the engine answered in full returns the reply from
\* its first byte through the end marker that closes it, and
\* parse_info_buffer on that buffer calls the callback once per record, in
\* order, with the record's code, length and payload.
C18_InfoReply ==
  (cinfo.op # "none") =>
    IF cinfo.reply[1] = isc_info_truncated THEN cinfo.outcome = "logic_error"
    ELSE cinfo.complete =>
      LET recs == cinfo.recs
          all == [k \in 1..Len(recs) |-> InfoRecord(recs[k])]
          total == IF recs = <<>> THEN 0
                   ELSE LET F[k \in 0..Len(recs)] == IF k = 0 THEN 0 ELSE F[k - 1] + Len(all[k])
                        IN F[Len(recs)]
      IN /\ cinfo.outcome = "ok"
         /\ cinfo.ret = SubSeq(cinfo.reply, 1, total + 1)
         /\ cinfo.ret[Len(cinfo.ret)] = isc_info_end
         /\ (cinfo.op = "parse") =>
              /\ cinfo.pout = "ok"
              /\ cinfo.calls = [k \in 1..Len(recs) |->
                                  [item |-> recs[k].code, length |-> Len(recs[k].payload),
                                   payload |-> recs[k].payload]]

\* ------------------------------------------------------- make_input claims
\* the wire type make_input gives a value of each kind
KindWire(kind) ==
  CASE kind \in ScalarKinds -> ScalarWire(kind)[1]
    [] kind \in {"std::string", "const char*", "char", "octets"} -> "SQL_TEXT"
    [] kind = "date" -> "SQL_TYPE_DATE"
    [] kind = "time" -> "SQL_TYPE_TIME"
    [] kind = "time_tz" -> "SQL_TIME_TZ"
    [] kind = "timestamp" -> "SQL_TIMESTAMP"
    [] kind = "timestamp_tz" -> "SQL_TIMESTAMP_TZ"
    [] kind = "nullptr_t" -> "SQL_SHORT"

\* C21: in the descriptor of the message handed to the engine, the wire type
\* of slot k depends on the kind of the k-th value alone: SQL_TEXT for octets
\* and for text, with setLength called with the size of the payload and the
\* slot's length equal to it; SQL_SHORT for a null; for every other kind its
\* own wire type, with no setLength call and the length the engine gives the
\* type.
C21_DescriptorPass ==
  imsg # NoMsg =>
    \A k \in 1..Len(imsg.args) :
      LET kind == imsg.args[k].kind
          calls == builder_calls(imsg.params[k])
          lengths == {c \in 1..Len(calls) : calls[c].fn = "setLength"}
      IN /\ imsg.items[k].type = KindWire(kind)
         /\ calls[1] = [fn |-> "setType", arg |-> KindWire(kind)]
         /\ Cardinality({c \in 1..Len(calls) : calls[c].fn = "setType"}) = 1
         /\ IF kind \in {"std::string", "const char*", "char", "octets"}
              THEN /\ Cardinality(lengths) = 1
                   /\ \A c \in lengths : calls[c].arg = Len(imsg.args[k].x)
                   /\ imsg.items[k].length = Len(imsg.args[k].x)
              ELSE /\ lengths = {}
                   /\ imsg.items[k].length = EngTypeLength(KindWire(kind))

\* a message of raw bytes followed by a null
C21_Witness ==
  /\ imsg # NoMsg /\ Len(imsg.args) = 2
  /\ imsg.args[1].kind = "octets" /\ imsg.args[2].kind = "nullptr_t"
  /\ imsg.items[1].type = "SQL_TEXT" /\ imsg.items[1].length = 3
  /\ imsg.items[2].type = "SQL_SHORT" /\ imsg.items[2].length = 2

\* C22: the message handed to the engine has one slot per value added, in
\* the order of the add() calls: slot k has the wire type of the k-th value
\* and, unless that value is a null, holds its bytes; and the buffer is
\* exactly as long as the descriptor's message length.
C22_SlotPerValue ==
  imsg # NoMsg =>
    /\ Len(imsg.items) = Len(imsg.args)
    /\ Len(imsg.params) = Len(imsg.args)
    /\ Len(imsg.buffer) = imsg.length
    /\ \A k \in 1..Len(imsg.args) :
         /\ imsg.items[k].type = KindWire(imsg.args[k].kind)
         /\ imsg.args[k].kind # "nullptr_t" =>
              SlotBytes(imsg.items[k], imsg.buffer, Len(imsg.args[k].x)) = imsg.args[k].x
    /\ \A j, k \in 1..Len(imsg.args) : j < k => imsg.items[j].offset < imsg.items[k].offset

\* the text "ab" was added before the short 32767, and the message holds
\* them in that order
C22_Witness ==
  /\ imsg # NoMsg /\ Len(imsg.args) = 2
  /\ imsg.args[1] = [kind |-> "std::string", x |-> <<97, 98>>]
  /\ imsg.args[2] = [kind |-> "short", x |-> <<255, 127>>]
  /\ imsg.items[1].offset = 0 /\ imsg.items[2].offset = 4
  /\ imsg.buffer = <<97, 98, 0, 0, 255, 127, 0, 0>>

\* the bytes [from, from + n) of the message
Region(from, n) == (from + 1)..(from + n)


\* ======================================================================
\* statement and _detail::executor: what one execute / cursor call does,
\* engine call by engine call.  Every engine call goes through the
\* ThrowStatusWrapper, so a call that fails throws.
\* ======================================================================

\* the values a run binds: a negative int and a text
ExecArgs == {[kind |-> "int", x |-> LE(-3, 4)],
             [kind |-> "std::string", x |-> <<97, 98>>]}

\* the engine call that fails in a run of the executor: none, or the first
\* call of the function named
FailCalls == {"none", "getMetadataBuilder", "setType", "getMetadata", "getMessageLength",
              "getLength", "execute", "openCursor"}

\* sizeof(long) in the builds that compile the header: 4 where long has 32
\* bits, 8 where long has 64 bits and int64_t is long long
LongSizes == {4, 8}

SizeOfIn(ls, ctype) == IF ctype \in {"long", "unsigned long"} THEN ls ELSE SizeOf(ctype)

\* input_params::add(a) in a build whose long has ls bytes
add_in(ls, a) ==
  IF a.kind \in {"std::string", "const char*", "char", "octets"}
  THEN IParam(add_type(a.kind), a.x)
  ELSE IF a.kind = "nullptr_t" THEN IParam("SQL_NULL", <<>>)
  ELSE IParam(add_type(a.kind), SignExtend(a.x, SizeOfIn(ls, add_member(a.kind))))

\* (..., params.add(args)): the arguments added from left to right
add_all(ls, list) == [k \in 1..Len(list) |-> add_in(ls, list[k])]

\* the bytes the switch of make_input stores through cast<T>(offset)
store_bytes(ls, param) ==
  IF param.type \in {"SQL_TEXT", MY_SQL_OCTETS, "SQL_VARYING", "SQL_NULL"}
  THEN slot_bytes(param)
  ELSE SubSeq(param.val, 1, SizeOfIn(ls, cast_type(param.type)))

\* make_input, second loop, from slot k on: the null indicator is stored
\* first, the value after it
RECURSIVE write_pass_in(_, _, _, _, _, _)
write_pass_in(ls, pars, items, buffer, k, overrun) ==
  IF k > Len(pars) THEN [buffer |-> buffer, overrun |-> overrun]
  ELSE LET nb == null_bytes(pars[k])
           sb == store_bytes(ls, pars[k])
           b1 == WriteAt(buffer, items[k].nullOffset, nb)
           b2 == WriteAt(b1, items[k].offset, sb)
       IN write_pass_in(ls, pars, items, b2, k + 1,
                        overrun \/ Overruns(buffer, items[k].nullOffset, nb)
                                \/ Overruns(b1, items[k].offset, sb))

\* input_params::make_input in a build whose long has ls bytes
make_input_in(ls, pars) ==
  LET imeta == EngMetadata([k \in 1..Len(pars) |-> builder_item(pars[k])])
      w == write_pass_in(ls, pars, imeta.items, Fill(0, imeta.length), 1, FALSE)
  IN [items |-> imeta.items, length |-> imeta.length, buffer |-> w.buffer,
      overrun |-> w.overrun]

\* the engine calls of make_input's first loop, from slot k on
RECURSIVE builder_pass(_, _)
builder_pass(pars, k) ==
  IF k > Len(pars) THEN <<>>
  ELSE [j \in 1..Len(builder_calls(pars[k])) |-> builder_calls(pars[k])[j].fn]
         \o builder_pass(pars, k + 1)

\* the engine calls of make_input's second loop, from slot k on
RECURSIVE layout_pass(_, _)
layout_pass(pars, k) ==
  IF k > Len(pars) THEN <<>>
  ELSE <<"getOffset", "getNullOffset", "getLength">> \o layout_pass(pars, k + 1)

\* the engine calls of make_input, in order
make_input_calls(pars) ==
  <<"getMetadataBuilder">> \o builder_pass(pars, 1)
    \o <<"getMetadata", "getMessageLength">> \o layout_pass(pars, 1)

\* the engine calls of executor::execute and executor::cursor, in order
executor_calls(name, pars) ==
  (IF pars = <<>> THEN <<>> ELSE make_input_calls(pars))
    \o (IF name \in {"execute", "execute_args"}
        THEN <<"execute", "getAffectedRecords">>
        ELSE <<"openCursor", "getOutputMetadata">>)

\* the position of the first call of fn, 0 if there is none
First(calls, fn) ==
  IF \E k \in 1..Len(calls) : calls[k] = fn
  THEN Least({k \in 1..Len(calls) : calls[k] = fn}) ELSE 0

\* fn was called and returned: the call that fails is the failAt-th (0: none)
Succeeded(calls, failAt, fn) ==
  First(calls, fn) # 0 /\ (failAt = 0 \/ First(calls, fn) < failAt)

\* ~autodestroy: the releases it makes of the pointer it holds
autodestroy(value) == IF value # NULLPTR THEN 1 ELSE 0

\* one call of the executor with the parameter list pars, in which the
\* failAt-th engine call fails
executor_run(name, ls, pars, failAt) ==
  LET calls == executor_calls(name, pars)
      builder == IF Succeeded(calls, failAt, "getMetadataBuilder") THEN 1 ELSE NULLPTR
      imeta == IF Succeeded(calls, failAt, "getMetadata") THEN 1 ELSE NULLPTR
      \* make_input returned: imeta goes into the executor's autodestroy
      returned == pars # <<>> /\ (failAt = 0 \/ failAt > Len(make_input_calls(pars)))
      msg == make_input_in(ls, pars)
  IN [op |-> name, given |-> <<>>, pars |-> pars,
      calls |-> IF failAt = 0 THEN calls ELSE SubSeq(calls, 1, failAt),
      failed |-> IF failAt = 0 THEN "" ELSE calls[failAt],
      outcome |-> IF failAt = 0 THEN "ok" ELSE "sql_error",
      handed |-> returned,
      items |-> IF returned THEN msg.items ELSE <<>>,
      length |-> IF returned THEN msg.length ELSE 0,
      buffer |-> IF returned THEN msg.buffer ELSE <<>>,
      overrun |-> returned /\ msg.overrun,
      builder |-> [acquired |-> IF builder # NULLPTR THEN 1 ELSE 0,
                   released |-> autodestroy(builder)],
      imeta |-> [acquired |-> IF imeta # NULLPTR THEN 1 ELSE 0,
                 released |-> IF returned THEN autodestroy(imeta) ELSE 0]]

XCall(name) == [NoExec EXCEPT !.op = name]

\* the lists input_params can hold in a run
ArgLists == Seqs(ExecArgs, MaxParams)

\* transaction::prepare(sql) and prepare(sql, args...)
stmt_prepare(ls, list, fail) ==
  /\ ~stmt.alive
  /\ sizeof_long \in {0, ls}
  /\ sizeof_long' = ls
  /\ IF fail
     THEN /\ stmt' = NoStmt
          /\ xlast' = [XCall("prepare") EXCEPT !.outcome = "sql_error", !.failed = "prepare"]
     ELSE /\ stmt' = [alive |-> TRUE, m_stmt |-> 1, m_iparams |-> add_all(ls, list),
                      released |-> 0]
          /\ xlast' = XCall("prepare")
  /\ UNCHANGED <<blobVars, fieldVars, traVars, infoVars, rowsVars, xferVars>>

\* statement::add
stmt_add(a) ==
  /\ stmt.alive
  /\ Len(stmt.m_iparams) < MaxParams
  /\ stmt' = [stmt EXCEPT !.m_iparams = Append(@, add_in(sizeof_long, a))]
  /\ xlast' = XCall("add")
  /\ UNCHANGED sizeof_long
  /\ UNCHANGED <<blobVars, fieldVars, traVars, infoVars, rowsVars, xferVars>>

\* statement::clear
stmt_clear ==
  /\ stmt.alive
  /\ stmt' = [stmt EXCEPT !.m_iparams = <<>>]
  /\ xlast' = XCall("clear")
  /\ UNCHANGED sizeof_long
  /\ UNCHANGED <<blobVars, fieldVars, traVars, infoVars, rowsVars, xferVars>>

stmt_run_clears(name, fn) ==
  /\ stmt.alive /\ stmt.m_stmt # NULLPTR
  /\ fn = "none" \/ First(executor_calls(name, stmt.m_iparams), fn) # 0
  /\ xlast' = executor_run(name, sizeof_long, stmt.m_iparams,
                           First(executor_calls(name, stmt.m_iparams), fn))
  /\ stmt' = [stmt EXCEPT !.m_iparams = <<>>]
  /\ UNCHANGED sizeof_long
  /\ UNCHANGED <<blobVars, fieldVars, traVars, infoVars, rowsVars, xferVars>>

\* statement::execute() and statement::cursor(): the executor is given
\* m_iparams by const reference
stmt_run(name, fn) ==
  /\ stmt.alive /\ stmt.m_stmt # NULLPTR
  /\ fn = "none" \/ First(executor_calls(name, stmt.m_iparams), fn) # 0
  /\ xlast' = executor_run(name, sizeof_long, stmt.m_iparams,
                           First(executor_calls(name, stmt.m_iparams), fn))
  /\ UNCHANGED <<stmt, sizeof_long>>
  /\ UNCHANGED <<blobVars, fieldVars, traVars, infoVars, rowsVars, xferVars>>

\* statement::execute(args...) and statement::cursor(args...): the executor
\* is given a local input_params
stmt_run_args(name, list, fn) ==
  /\ stmt.alive /\ stmt.m_stmt # NULLPTR
  /\ list # <<>>
  /\ fn = "none" \/ First(executor_calls(name, add_all(sizeof_long, list)), fn) # 0
  /\ xlast' = [executor_run(name, sizeof_long, add_all(sizeof_long, list),
                            First(executor_calls(name, add_all(sizeof_long, list)), fn))
                 EXCEPT !.given = list]
  /\ UNCHANGED <<stmt, sizeof_long>>
  /\ UNCHANGED <<blobVars, fieldVars, traVars, infoVars, rowsVars, xferVars>>

\* execute / cursor on a statement that was closed: m_stmt is null, and the
\* engine call is made through it
stmt_run_closed(name) ==
  /\ stmt.alive /\ stmt.m_stmt = NULLPTR
  /\ xlast.outcome \notin {"crash", "unpredictable"}
  /\ \E o \in {"crash", "unpredictable"} : xlast' = [XCall(name) EXCEPT !.outcome = o]
  /\ UNCHANGED <<stmt, sizeof_long>>
  /\ UNCHANGED <<blobVars, fieldVars, traVars, infoVars, rowsVars, xferVars>>

\* statement::close
stmt_close(fail) ==
  /\ stmt.alive /\ stmt.m_stmt # NULLPTR
  /\ stmt' = [stmt EXCEPT !.m_iparams = <<>>, !.m_stmt = NULLPTR,
                          !.released = IF fail THEN @ ELSE @ + 1]
  /\ xlast' = [XCall("close") EXCEPT !.outcome = IF fail THEN "sql_error" ELSE "ok",
                                     !.failed = IF fail THEN "free" ELSE ""]
  /\ UNCHANGED sizeof_long
  /\ UNCHANGED <<blobVars, fieldVars, traVars, infoVars, rowsVars, xferVars>>

\* ~statement
stmt_destroy ==
  /\ stmt.alive
  /\ xlast.outcome \notin {"crash", "unpredictable"}
  /\ stmt' = NoStmt
  /\ xlast' = XCall("~statement")
  /\ UNCHANGED sizeof_long
  /\ UNCHANGED <<blobVars, fieldVars, traVars, infoVars, rowsVars, xferVars>>

NextExec ==
  \/ \E ls \in LongSizes : \E list \in ArgLists : \E fail \in BOOLEAN :
       stmt_prepare(ls, list, fail)
  \/ \E a \in ExecArgs : stmt_add(a)
  \/ stmt_clear
  \/ \E name \in {"execute", "cursor"} : \E fn \in FailCalls : stmt_run(name, fn)
  \/ \E name \in {"execute_args", "cursor_args"} : \E list \in ArgLists :
       \E fn \in FailCalls : stmt_run_args(name, list, fn)
  \/ \E name \in {"execute", "cursor", "execute_args", "cursor_args"} : stmt_run_closed(name)
  \/ \E fail \in BOOLEAN : stmt_close(fail)
  \/ stmt_destroy

SpecExec == Init /\ [][NextExec]_vars

\* ------------------------------------------------------- executor claims
Encoded == xlast.op \in {"execute", "cursor", "execute_args", "cursor_args"} /\ xlast.handed

\* C23: for every value that is not a null, the bytes make_input stores
\* start at the slot's offset and end within the slot's declared length (for
\* text and raw bytes they are exactly as many as the declared length), so
\* they touch no other slot, no null indicator and nothing past the end of
\* the buffer.
C23_WritesInsideSlot ==
  Encoded =>
    /\ ~xlast.overrun
    /\ \A k \in 1..Len(xlast.pars) :
         xlast.pars[k].type # "SQL_NULL" =>
           LET it == xlast.items[k]
               sb == store_bytes(sizeof_long, xlast.pars[k])
               written == Region(it.offset, Len(sb))
           IN /\ Len(sb) <= it.length
              /\ xlast.pars[k].type \in {"SQL_TEXT", MY_SQL_OCTETS} => Len(sb) = it.length
              /\ written \subseteq Region(it.offset, it.length)
              /\ written \subseteq 1..Len(xlast.buffer)
              /\ \A j \in 1..Len(xlast.pars) :
                   /\ written \cap Region(xlast.items[j].nullOffset, 2) = {}
                   /\ j # k => written \cap Region(xlast.items[j].offset,
                                                   xlast.items[j].length) = {}

\* C25: in every execute / cursor call, the metadata builder and the message
\* metadata are each released as often as they were acquired (never twice,
\* never not at all), whichever engine call failed.
C25_HandlesReleasedOnce ==
  /\ xlast.builder.released = xlast.builder.acquired
  /\ xlast.imeta.released = xlast.imeta.acquired

\* the step is a call that reached the executor
Ran(names) == xlast'.op \in names /\ xlast'.outcome \in {"ok", "sql_error"}

\* C29: execute() and cursor() leave the stored parameter list as it was and
\* encode exactly that list, in its order; add() appends one parameter at the
\* end; the list of a living statement becomes empty only in clear() and
\* close(); execute(args...) and cursor(args...) leave the stored list as it
\* was and encode their own arguments, not the stored ones.
C29_StoredListFrame ==
  [][/\ Ran({"execute", "cursor"}) =>
          /\ stmt'.m_iparams = stmt.m_iparams
          /\ xlast'.pars = stmt.m_iparams
     /\ Ran({"execute_args", "cursor_args"}) =>
          /\ stmt'.m_iparams = stmt.m_iparams
          /\ xlast'.pars = add_all(sizeof_long, xlast'.given)
     /\ xlast'.op = "add" =>
          /\ Len(stmt'.m_iparams) = Len(stmt.m_iparams) + 1
          /\ SubSeq(stmt'.m_iparams, 1, Len(stmt.m_iparams)) = stmt.m_iparams
     /\ (stmt.alive /\ stmt'.alive /\ stmt.m_iparams # <<>> /\ stmt'.m_iparams = <<>>) =>
          xlast'.op \in {"clear", "close"}
     /\ xlast'.op \in {"clear", "close"} => stmt'.m_iparams = <<>>]_vars

\* a statement holding an int and a text was executed without arguments, and
\* the message carries the two in that order
C29_Witness ==
  /\ xlast.op = "execute" /\ xlast.outcome = "ok"
  /\ Len(stmt.m_iparams) = 2
  /\ stmt.m_iparams[1].type = "SQL_LONG" /\ stmt.m_iparams[2].type = "SQL_TEXT"
  /\ xlast.pars = stmt.m_iparams
  /\ xlast.items[1].type = "SQL_LONG" /\ xlast.items[2].type = "SQL_TEXT"

\* ======================================================================
\* Copies of a blob object.  blob declares a destructor and nothing else, so
\* it has the implicit copy constructor, which copies m_blob and m_id.
\* ======================================================================

\* blob::blob(blob const&), implicitly defined
blob_copy(i) ==
  LET j == NextObj
  IN /\ ~crashed /\ alive[i] = "alive" /\ j # 0
     /\ alive' = [alive EXCEPT ![j] = "alive"]
     /\ m_blob' = [m_blob EXCEPT ![j] = m_blob[i]]
     /\ m_id' = [m_id EXCEPT ![j] = m_id[i]]
     /\ last' = Op("copy", j)
     /\ UNCHANGED <<eng_blob, eng_hnd, put_log, crashed>>
     /\ UNCHANGED <<fieldVars, traVars, infoVars, execVars, rowsVars, xferVars>>

NextBlobCopy ==
  \/ \E fail \in BOOLEAN : create_blob(fail)
  \/ \E id \in AllIds, fail \in BOOLEAN : open_blob(id, fail)
  \/ \E i \in Objs : blob_copy(i)
  \/ \E i \in Objs, fail \in BOOLEAN : close(i, fail)
  \/ \E i \in Objs, failAt \in {0, 1} : get_whole(i, "get", failAt)
  \/ \E i \in Objs, failAt \in {0, 1} : put_any(i, "put", MAX_SEGMENT_SIZE + 1, failAt)
  \/ \E i \in Objs : destroy(i)

SpecBlobCopy == Init /\ [][NextBlobCopy]_vars

\* the living objects that hold the handle h
Holders(h) == {i \in Objs : alive[i] = "alive" /\ m_blob[i] = h}

\* C26: a handle the engine gave out is closed or released at most once, and
\* exactly once when no living object holds it any more.
C26_HandleReleasedOnce ==
  \A h \in Objs :
    eng_hnd[h].st # "none" =>
      /\ eng_hnd[h].rel <= 1
      /\ (~crashed /\ Holders(h) = {}) => eng_hnd[h].rel = 1

\* ======================================================================
\* result_set objects: construction by the executor, move, next, get, close
\* and destruction, over a cursor of one nullable SQL_LONG column.
\* ======================================================================

\* the output metadata of the cursor
RowMeta == EngMetadata(<< Item("SQL_LONG", 0, 0, 0) >>)

\* the values of the column, row by row
RowValues == {LE(-3, 4), LE(7, 4), SqlNull}
RowLists == Seqs(RowValues, MaxRows)

RCall(name, o) == [NoRCall EXCEPT !.op = name, !.obj = o]

RRunning == rlast.outcome \notin {"crash", "unpredictable"}

FreeRs == {r \in RsIds : eng_rs[r].st = "none"}
FreeRObj == {o \in RObjs : rset[o].alive = "none"}

\* the engine call that fails while a cursor is opened
CursorFails == {"none", "openCursor", "getMetadata", "getMessageLength"}

\* transaction::cursor(sql): executor::cursor opens the cursor and takes its
\* metadata into raw pointers, then constructs the result_set, which asks
\* for the message length and allocates the row buffer
rset_cursor(rows, fail) ==
  /\ RRunning /\ FreeRs # {} /\ FreeRObj # {}
  /\ LET r == Least(FreeRs)
         o == Least(FreeRObj)
     IN IF fail = "openCursor"
        THEN /\ rlast' = [RCall("cursor", o) EXCEPT !.outcome = "sql_error", !.what = fail]
             /\ UNCHANGED <<rset, eng_rs>>
        ELSE IF fail \in {"getMetadata", "getMessageLength"}
        THEN /\ eng_rs' = [eng_rs EXCEPT ![r] = [NoEngRs EXCEPT !.st = "open"]]
             /\ rlast' = [RCall("cursor", o) EXCEPT !.outcome = "sql_error", !.what = fail]
             /\ UNCHANGED rset
        ELSE /\ eng_rs' = [eng_rs EXCEPT ![r] =
                             [NoEngRs EXCEPT !.st = "open", !.owned = TRUE,
                                !.rows = [k \in 1..Len(rows) |-> EngRow(RowMeta, rows[k])]]]
             /\ rset' = [rset EXCEPT ![o] =
                           [alive |-> "alive", m_rs |-> r, m_meta |-> r, m_buffer |-> r]]
             /\ rlast' = RCall("cursor", o)
  /\ UNCHANGED fld
  /\ UNCHANGED <<blobVars, fieldVars, traVars, infoVars, execVars, xferVars>>

\* result_set::result_set(result_set&&)
rset_move(rhs) ==
  /\ RRunning /\ rset[rhs].alive = "alive" /\ FreeRObj # {}
  /\ LET o == Least(FreeRObj)
     IN rset' = [rset EXCEPT ![o] = rset[rhs],
                             ![rhs] = [NoRset EXCEPT !.alive = "alive"]]
  /\ rlast' = RCall("move", rhs)
  /\ UNCHANGED <<eng_rs, fld>>
  /\ UNCHANGED <<blobVars, fieldVars, traVars, infoVars, execVars, xferVars>>

\* a member call through a null m_rs or m_meta: undefined behaviour
RNullDeref(name, o) ==
  /\ \E out \in {"crash", "unpredictable"} : rlast' = [RCall(name, o) EXCEPT !.outcome = out]
  /\ UNCHANGED <<rset, eng_rs, fld>>

\* result_set::next: fetchNext stores the row in m_buffer and answers
\* RESULT_OK, or answers RESULT_NO_DATA and leaves the buffer as it is
rset_next(o, fail) ==
  /\ RRunning /\ rset[o].alive = "alive"
  /\ IF rset[o].m_rs = NULLPTR THEN RNullDeref("next", o)
     ELSE LET r == rset[o].m_rs
          IN IF fail
             THEN /\ rlast' = [RCall("next", o) EXCEPT !.outcome = "sql_error"]
                  /\ UNCHANGED <<rset, eng_rs, fld>>
             ELSE IF eng_rs[r].rows = <<>>
             THEN /\ rlast' = RCall("next", o)
                  /\ UNCHANGED <<rset, eng_rs, fld>>
             ELSE /\ eng_rs' = [eng_rs EXCEPT ![r].rows = Tail(@),
                                   ![r].sent = Append(@, Head(eng_rs[r].rows)),
                                   ![rset[o].m_buffer].mem = Head(eng_rs[r].rows)]
                  /\ rlast' = [RCall("next", o) EXCEPT !.flag = TRUE]
                  /\ UNCHANGED <<rset, fld>>
  /\ UNCHANGED <<blobVars, fieldVars, traVars, infoVars, execVars, xferVars>>

\* result_set::get(index) with field::field: the field keeps the index, the
\* metadata pointer and the pointer to the row buffer
rset_get(o, index) ==
  /\ RRunning /\ rset[o].alive = "alive"
  /\ IF rs_get(index, Len(RowMeta.items)).st # "ok"
     THEN /\ rlast' = [RCall("get", o) EXCEPT !.outcome = "logic_error",
                                              !.what = "Row index out of bounds"]
          /\ UNCHANGED <<rset, eng_rs, fld>>
     ELSE IF rset[o].m_meta = NULLPTR THEN RNullDeref("get", o)
     ELSE /\ fld' = [m_index |-> index, m_meta |-> rset[o].m_meta,
                     m_buffer |-> rset[o].m_buffer,
                     got_at |-> Len(eng_rs[rset[o].m_rs].sent)]
          /\ rlast' = RCall("get", o)
          /\ UNCHANGED <<rset, eng_rs>>
  /\ UNCHANGED <<blobVars, fieldVars, traVars, infoVars, execVars, xferVars>>

field_row_snapshot(f) ==
  IF f.got_at = 0 THEN <<>> ELSE eng_rs[f.m_buffer].sent[f.got_at]

\* field::cast and field::is_null: the bytes of m_buffer at the time of the
\* call
field_row(f) == eng_rs[f.m_buffer].mem

\* as<int>() and is_null() on the field the caller keeps.  Once the buffer
\* was deleted or the metadata released, the field dangles.
field_use(name) ==
  /\ RRunning /\ fld # NoField
  /\ IF eng_rs[fld.m_buffer].buf_del > 0 \/ eng_rs[fld.m_meta].meta_rel > 0
     THEN \E out \in {"crash", "unpredictable"} :
            rlast' = [RCall(name, 0) EXCEPT !.outcome = out]
     ELSE IF field_row(fld) = <<>>
     THEN rlast' = [RCall(name, 0) EXCEPT !.outcome = "indeterminate"]
     ELSE LET it == RowMeta.items[fld.m_index + 1]
          IN rlast' = IF name = "as"
                      THEN [RCall(name, 0) EXCEPT !.val = as("int", it, field_row(fld)).val]
                      ELSE [RCall(name, 0) EXCEPT !.flag = is_null(it, field_row(fld))]
  /\ UNCHANGED <<rset, eng_rs, fld>>
  /\ UNCHANGED <<blobVars, fieldVars, traVars, infoVars, execVars, xferVars>>

\* result_set::close: the buffer is deleted, the metadata released and m_rs
\* set to null before IResultSet::close is called
rset_close(o, fail) ==
  /\ RRunning /\ rset[o].alive = "alive"
  /\ IF rset[o].m_meta = NULLPTR THEN RNullDeref("close", o)
     ELSE LET r == rset[o].m_rs
          IN /\ rset' = [rset EXCEPT ![o] = [NoRset EXCEPT !.alive = "alive"]]
             /\ eng_rs' = [eng_rs EXCEPT
                             ![r].buf_del = @ + 1, ![r].meta_rel = @ + 1,
                             ![r].rs_rel = IF fail THEN @ ELSE @ + 1,
                             ![r].st = IF fail THEN @ ELSE "closed"]
             /\ rlast' = [RCall("close", o) EXCEPT
                            !.outcome = IF fail THEN "sql_error" ELSE "ok"]
             /\ UNCHANGED fld
  /\ UNCHANGED <<blobVars, fieldVars, traVars, infoVars, execVars, xferVars>>

\* result_set::~result_set
rset_destroy(o) ==
  /\ RRunning /\ rset[o].alive = "alive"
  /\ rset' = [rset EXCEPT ![o] = [NoRset EXCEPT !.alive = "destroyed"]]
  /\ eng_rs' = [r \in RsIds |->
       [eng_rs[r] EXCEPT
          !.buf_del = IF rset[o].m_buffer = r THEN @ + 1 ELSE @,
          !.meta_rel = IF rset[o].m_meta = r THEN @ + 1 ELSE @,
          !.rs_rel = IF rset[o].m_rs = r THEN @ + 1 ELSE @,
          !.st = IF rset[o].m_rs = r THEN "released" ELSE @]]
  /\ rlast' = RCall("~result_set", o)
  /\ UNCHANGED fld
  /\ UNCHANGED <<blobVars, fieldVars, traVars, infoVars, execVars, xferVars>>

NextRows ==
  \/ \E rows \in RowLists : \E fail \in CursorFails : rset_cursor(rows, fail)
  \/ \E rhs \in RObjs : rset_move(rhs)
  \/ \E o \in RObjs : \E fail \in BOOLEAN : rset_next(o, fail)
  \/ \E o \in RObjs : \E index \in 0..1 : rset_get(o, index)
  \/ \E name \in {"as", "is_null"} : field_use(name)
  \/ \E o \in RObjs : \E fail \in BOOLEAN : rset_close(o, fail)
  \/ \E o \in RObjs : rset_destroy(o)

SpecRows == Init /\ [][NextRows]_vars

\* the field the caller keeps can be read
FieldReads == rlast.op \in {"as", "is_null"} /\ rlast.outcome = "ok"

\* C24: whatever was fetched since the field was obtained, as<T>() and
\* is_null() on it give the value and the null flag of the row the last
\* successful next() fetched, not those of a row fetched before it.
C24_FieldSeesLastRow ==
  FieldReads =>
    LET it == RowMeta.items[fld.m_index + 1]
        sent == eng_rs[fld.m_buffer].sent
        row == sent[Len(sent)]
    IN /\ sent # <<>>
       /\ rlast.op = "as" => rlast.val = as("int", it, row).val
       /\ rlast.op = "is_null" => rlast.flag = is_null(it, row)

\* the field was obtained after the row -3 was fetched, then 7 was fetched
\* and the field read: it gave 7
C24_Witness ==
  /\ FieldReads /\ rlast.op = "as"
  /\ fld.got_at = 1
  /\ eng_rs[fld.m_buffer].sent = << EngRow(RowMeta, LE(-3, 4)), EngRow(RowMeta, LE(7, 4)) >>
  /\ rlast.val = as("int", RowMeta.items[1], EngRow(RowMeta, LE(7, 4))).val
  /\ rlast.val # as("int", RowMeta.items[1], EngRow(RowMeta, LE(-3, 4))).val

\* the living result_set objects that hold the cursor, metadata or buffer r
RHolders(r) ==
  {o \in RObjs : rset[o].alive = "alive"
                 /\ (rset[o].m_rs = r \/ rset[o].m_meta = r \/ rset[o].m_buffer = r)}

\* C28: the cursor, the metadata and the row buffer of a result_set are each
\* released at most once, and exactly once when no living result_set holds
\* them any more.
C28_ReleasedOnce ==
  \A r \in RsIds :
    eng_rs[r].owned =>
      /\ eng_rs[r].rs_rel <= 1 /\ eng_rs[r].meta_rel <= 1 /\ eng_rs[r].buf_del <= 1
      /\ (RRunning /\ RHolders(r) = {}) =>
           /\ eng_rs[r].rs_rel = 1 /\ eng_rs[r].meta_rel = 1 /\ eng_rs[r].buf_del = 1

\* ======================================================================
\* blob::put(buffer, length) and blob::get() transfer by transfer: pc is the
\* place of the call in its code ("single": before the one putSegment of a
\* short put, "loop": at the test of the loop, "done": before the return,
\* "idle": not in a call).
\* ======================================================================

\* the lengths put is called with
XferLengths == {k * MAX_SEGMENT_SIZE + d : k \in 0..MaxSegs, d \in {0, 1, 1000}}

\* the blobs get() reads: up to MaxSegs segments, empty, tiny or longer than
\* the read buffer
SegLens == {0, 1, 40000}
XferBlobs == {[k \in 1..Len(lens) |-> Bytes(k, lens[k])] : lens \in Seqs(SegLens, MaxSegs)}

put_chunk_none(pos, length) == 0

\* std::min(MAX_SEGMENT_SIZE, length - pos)
put_chunk(pos, length) == Min(MAX_SEGMENT_SIZE, length - pos)

\* blob::put is entered
put_call(length) ==
  /\ xfer.pc = "idle"
  /\ xfer' = [NoXfer EXCEPT !.op = "put", !.length = length,
                            !.pc = IF length <= MAX_SEGMENT_SIZE THEN "single" ELSE "loop"]
  /\ UNCHANGED <<blobVars, fieldVars, traVars, infoVars, execVars, rowsVars>>

\* one putSegment of blob::put; a putSegment that fails throws out of put
put_transfer(fail) ==
  /\ xfer.op = "put"
  /\ xfer.pc = "single" \/ (xfer.pc = "loop" /\ xfer.pos < xfer.length)
  /\ LET len == IF xfer.pc = "single" THEN xfer.length
                ELSE put_chunk(xfer.pos, xfer.length)
     IN xfer' = IF fail
                THEN [xfer EXCEPT !.pc = "idle", !.n = @ + 1, !.rc = "throw",
                                  !.outcome = "sql_error"]
                ELSE [xfer EXCEPT !.pos = @ + len, !.n = @ + 1, !.rc = "RESULT_OK",
                                  !.pc = IF xfer.pc = "single" THEN "done" ELSE "loop"]
  /\ UNCHANGED <<blobVars, fieldVars, traVars, infoVars, execVars, rowsVars>>

\* blob::put returns
put_return ==
  /\ xfer.op = "put"
  /\ xfer.pc = "done" \/ (xfer.pc = "loop" /\ ~(xfer.pos < xfer.length))
  /\ xfer' = [xfer EXCEPT !.pc = "idle"]
  /\ UNCHANGED <<blobVars, fieldVars, traVars, infoVars, execVars, rowsVars>>

\* blob::get() is entered on a blob opened for reading
get_call(segs) ==
  /\ xfer.pc = "idle"
  /\ xfer' = [NoXfer EXCEPT !.op = "get", !.segs = segs, !.pc = "loop"]
  /\ UNCHANGED <<blobVars, fieldVars, traVars, infoVars, execVars, rowsVars>>

\* one getSegment of blob::get(); a getSegment that fails throws out of get
get_transfer(fail) ==
  /\ xfer.op = "get" /\ xfer.pc = "loop"
  /\ LET r == EngGetSegment(xfer.segs, xfer.seg, xfer.off, MAX_SEGMENT_SIZE)
     IN xfer' = IF fail
                THEN [xfer EXCEPT !.pc = "idle", !.n = @ + 1, !.rc = "throw",
                                  !.outcome = "sql_error"]
                ELSE IF get_stops(r.rc)
                THEN [xfer EXCEPT !.pc = "done", !.n = @ + 1, !.rc = r.rc]
                ELSE [xfer EXCEPT !.n = @ + 1, !.rc = r.rc, !.seg = r.seg, !.off = r.off,
                                  !.result = @ + BLen(r.data)]
  /\ UNCHANGED <<blobVars, fieldVars, traVars, infoVars, execVars, rowsVars>>

\* blob::get() returns the result
get_return ==
  /\ xfer.op = "get" /\ xfer.pc = "done"
  /\ xfer' = [xfer EXCEPT !.pc = "idle"]
  /\ UNCHANGED <<blobVars, fieldVars, traVars, infoVars, execVars, rowsVars>>

NextXfer ==
  \/ \E length \in XferLengths : put_call(length)
  \/ \E fail \in BOOLEAN : put_transfer(fail)
  \/ put_return
  \/ \E segs \in XferBlobs : get_call(segs)
  \/ \E fail \in BOOLEAN : get_transfer(fail)
  \/ get_return

SpecXfer == Init /\ [][NextXfer]_vars

\* the steps of a call that was entered: the thread that runs put or get()
\* goes on running it
XferStep ==
  \/ \E fail \in BOOLEAN : put_transfer(fail)
  \/ put_return
  \/ \E fail \in BOOLEAN : get_transfer(fail)
  \/ get_return

SpecXferLive == SpecXfer /\ WF_vars(XferStep)

\* a transfer of put / of get() that did not fail was made in this step
PutTransferred == xfer.op = "put" /\ xfer'.op = "put" /\ xfer'.n = xfer.n + 1 /\ xfer'.rc # "throw"
GetTransferred == xfer.op = "get" /\ xfer'.op = "get" /\ xfer'.n = xfer.n + 1
Returned_ok == xfer.pc # "idle" /\ xfer'.pc = "idle" /\ xfer'.outcome = "ok"

\* C30 as stated: every transfer of put advances the write position by
\* between 1 and 32768 bytes, put returns only with the position at the
\* length, get() makes no transfer after a status other than complete or
\* partial segment, and every call returns.
C30_EveryTransferAdvances ==
  /\ [][/\ PutTransferred =>
             /\ xfer'.pos - xfer.pos \in 1..MAX_SEGMENT_SIZE
             /\ xfer'.pos <= xfer.length
        /\ (Returned_ok /\ xfer.op = "put") => xfer.pos = xfer.length
        /\ GetTransferred => xfer.rc \in {"", "RESULT_OK", "RESULT_SEGMENT"}
        /\ (Returned_ok /\ xfer.op = "get") =>
             xfer.rc \notin {"RESULT_OK", "RESULT_SEGMENT"}]_vars
  /\ (xfer.pc # "idle") ~> (xfer.pc = "idle")

\* C30, amended: a put of at most 32768 bytes makes one transfer of the
\* whole length (no byte for an empty put); in a longer put every transfer
\* advances the write position by between 1 and 32768 bytes; put returns
\* only with the position at the length; get() makes no transfer after a
\* status other than complete or partial segment and returns right after
\* such a status; and every call returns.
C30_TransfersTerminate ==
  /\ [][/\ PutTransferred =>
             /\ xfer.length <= MAX_SEGMENT_SIZE =>
                  xfer.pos = 0 /\ xfer'.pos = xfer.length /\ xfer.n = 0
             /\ xfer.length > MAX_SEGMENT_SIZE =>
                  xfer'.pos - xfer.pos \in 1..MAX_SEGMENT_SIZE
             /\ xfer'.pos <= xfer.length
        /\ (Returned_ok /\ xfer.op = "put") => xfer.pos = xfer.length
        /\ GetTransferred => xfer.rc \in {"", "RESULT_OK", "RESULT_SEGMENT"}
        /\ (Returned_ok /\ xfer.op = "get") =>
             xfer.rc \notin {"RESULT_OK", "RESULT_SEGMENT"}]_vars
  /\ (xfer.pc # "idle") ~> (xfer.pc = "idle")

\* a put of 3 * 32768 + 1000 bytes returned after 4 transfers
C30_Witness ==
  /\ xfer.op = "put" /\ xfer.pc = "idle" /\ xfer.outcome = "ok"
  /\ xfer.length = 3 * MAX_SEGMENT_SIZE + 1000
  /\ xfer.pos = xfer.length /\ xfer.n = 4

====
